---- MODULE Spec2Model ----
(***************************************************************************)
(* A model of the insurance data pipeline of this repository:              *)
(*   scripts/etl_to_duckdb.py      DataProcessor (alias resolution, metric *)
(*                                 derivation, final column layout)        *)
(*   scripts/generate_dashboard.py DashboardGenerator (KPIs, per-group     *)
(*                                 charts, weekly trend, drilldown index)  *)
(*                                                                         *)
(* Numbers are exact rationals n/d (pandas uses IEEE doubles; the model    *)
(* keeps the IEEE special values NaN, +inf and -inf and the rules that     *)
(* produce them, and leaves out rounding error of the mantissa).           *)
(* Column names and cell texts that are Chinese in the source are spelled  *)
(* in ASCII here: the second (Chinese) alias of snapshot_date is           *)
(* "zh_snapshot_date", its third alias 'Snapshot Date' is                  *)
(* "en_snapshot_date", the cell texts shi/fou (yes/no) are "zh_yes" and    *)
(* "zh_no", the province name assigned to second_level_organization is     *)
(* "Sichuan", and in file names the characters di (ordinal prefix) and     *)
(* zhou (week) are the one-character tokens "Di" and "Zhou".               *)
(***************************************************************************)
EXTENDS Integers, Sequences, FiniteSets, TLC

VARIABLES
    \* ---- ETL: process_and_import_files on one file ----
    pc,                 \* position in the per-file pipeline
    file_df,            \* the DataFrame as read from the file (never written)
    df,                 \* the DataFrame object handed to standardize_fields
    result_df,          \* df_std / df_calc / final_df, whichever was last returned
    rename_map,         \* rename_map of the last standardize_fields call
    prev_rename_map,    \* rename_map of the call before it
    missing_fields,     \* fields named by the ValueError of the last call
    raised,             \* exception that ended the pipeline
    calls,              \* how often standardize_fields ran on df
    original_filename,  \* argument of standardize_fields
    user_week_number,   \* argument of standardize_fields
    output_columns,     \* list(final_df.columns) once finalize_output returned
    \* ---- dashboard: DashboardGenerator.generate ----
    dpc,                \* position in generate()
    csv_rows,           \* the rows of the input CSV file
    dash_df,            \* self.df
    kpis,               \* self.kpis
    charts,             \* the data frames behind the charts built so far
    insights,           \* what generate_weekly_insights computed
    drilldown_data,     \* what create_drilldown_data computed
    \* ---- CSV tools: merge_actual_data_to_csv.py, validate_csv.py,
    \*      validate_csv_data.py, each run on one input file ----
    tool,               \* the program that runs
    cpc,                \* its position
    drop_second,        \* --drop-second-level-organization (merge script)
    fieldnames,         \* reader.fieldnames of the input file
    in_rows,            \* the data rows of the input file
    rows_read,          \* how many of them the row loop has consumed
    out_csv,            \* --output-csv: header and cleaned rows
    invalid_csv,        \* --invalid-csv: the rejected rows
    counts,             \* total_rows / valid_rows / invalid_rows
    findings,           \* the errors and warnings recorded
    reported_missing,   \* the columns named as missing
    exit_status,        \* how the program ended
    \* ---- clean_archive.py: one run of main ----
    apc,                \* position in main
    args,               \* --interactive, --auto-clean, --dry-run
    archive_dir,        \* the *.md files of archive/, in the order glob lists them
    active_docs,        \* the active documents with the links they hold
    references,         \* self.references
    report_,            \* what generate_report returned
    candidates,         \* candidates_for_deletion
    next_candidate,     \* position of the cleanup loop in candidates
    response,           \* the last answer read by interactive_cleanup
    deleted,            \* the files unlinked so far
    \* ---- ETLConverter.run / CSVToDuckDBConverter.convert: one run ----
    conv,               \* the converter that runs
    vpc,                \* its position
    in_files,           \* the input files found, in processing order
    files_done,         \* how many of them were imported
    old_db,             \* the output database file as it was before the run
    db,                 \* the output database file now
    conn,               \* self.conn: none, open or closed
    ran,                \* the stages started so far, in order
    failed_at,          \* the stage whose exception ended the run
    index_failed,       \* the indexes whose creation failed
    exit_code,          \* the status the process ends with
    \* ---- the drilldown script of the generated page ----
    drilldownData,      \* const drilldownData
    currentDrilldown,   \* let currentDrilldown
    modal_display,      \* drilldownModal.style.display
    breadcrumb,         \* the levels the breadcrumb links to, as last rendered
    content             \* the drill-in links of drilldownContent, as last rendered

etl_vars == <<pc, file_df, df, result_df, rename_map, prev_rename_map,
              missing_fields, raised, calls, original_filename, user_week_number,
              output_columns>>
dash_vars == <<dpc, csv_rows, dash_df, kpis, charts, insights, drilldown_data>>
csv_vars == <<tool, cpc, drop_second, fieldnames, in_rows, rows_read, out_csv,
              invalid_csv, counts, findings, reported_missing, exit_status>>
arch_vars == <<apc, args, archive_dir, active_docs, references, report_, candidates,
               next_candidate, response, deleted>>
\* the programs added after the CSV tools
conv_vars == <<conv, vpc, in_files, files_done, old_db, db, conn, ran, failed_at,
               index_failed, exit_code>>
nav_vars == <<drilldownData, currentDrilldown, modal_display, breadcrumb, content>>
ext_vars == <<arch_vars, conv_vars, nav_vars>>
vars == <<etl_vars, dash_vars, csv_vars, ext_vars>>

(***************************************************************************)
(* Cell values.  Every value is a record of the same shape, so that any    *)
(* two values can be compared.                                             *)
(***************************************************************************)
RECURSIVE GCD(_, _)
GCD(a, b) == IF b = 0 THEN a ELSE GCD(b, a % b)

Abs(x) == IF x < 0 THEN -x ELSE x

\* the rational n/d in lowest terms with a positive denominator (d # 0)
Num(n, d) ==
    LET g == GCD(Abs(n), Abs(d))
        s == IF d < 0 THEN -1 ELSE 1
    IN  [k |-> "num", n |-> (s * n) \div g, d |-> (s * d) \div g, s |-> ""]

Int_(n)  == [k |-> "num", n |-> n, d |-> 1, s |-> ""]
NaN      == [k |-> "nan", n |-> 0, d |-> 1, s |-> ""]
PosInf   == [k |-> "inf", n |-> 1, d |-> 1, s |-> ""]
NegInf   == [k |-> "inf", n |-> -1, d |-> 1, s |-> ""]
NaT      == [k |-> "nat", n |-> 0, d |-> 1, s |-> ""]
None     == [k |-> "none", n |-> 0, d |-> 1, s |-> ""]
Str(x)   == [k |-> "str", n |-> 0, d |-> 1, s |-> x]
Bool(b)  == [k |-> "bool", n |-> (IF b THEN 1 ELSE 0), d |-> 1, s |-> ""]

IsNum(v)    == v.k = "num"
IsFinite(v) == v.k = "num"
IsZero(v)   == v.k = "num" /\ v.n = 0
Sign(v)     == IF v.n > 0 THEN 1 ELSE IF v.n < 0 THEN -1 ELSE 0
InfOf(sgn)  == IF sgn > 0 THEN PosInf ELSE NegInf

(***************************************************************************)
(* IEEE arithmetic on {num, nan, inf}.                                     *)
(***************************************************************************)
FAdd(a, b) ==
    IF a.k = "nan" \/ b.k = "nan" THEN NaN
    ELSE IF a.k = "inf" /\ b.k = "inf" THEN (IF a.n = b.n THEN a ELSE NaN)
    ELSE IF a.k = "inf" THEN a
    ELSE IF b.k = "inf" THEN b
    ELSE Num(a.n * b.d + b.n * a.d, a.d * b.d)

FNeg(a) == IF a.k = "nan" THEN NaN
           ELSE IF a.k = "inf" THEN InfOf(-a.n)
           ELSE Num(-a.n, a.d)

FSub(a, b) == FAdd(a, FNeg(b))

FMul(a, b) ==
    IF a.k = "nan" \/ b.k = "nan" THEN NaN
    ELSE IF a.k = "inf" \/ b.k = "inf"
         THEN (IF Sign(a) * Sign(b) = 0 THEN NaN ELSE InfOf(Sign(a) * Sign(b)))
    ELSE Num(a.n * b.n, a.d * b.d)

\* float division as numpy/pandas do it: x/0 is +-inf, 0/0 is NaN, no exception
FDiv(a, b) ==
    IF a.k = "nan" \/ b.k = "nan" THEN NaN
    ELSE IF a.k = "inf" /\ b.k = "inf" THEN NaN
    ELSE IF a.k = "inf" THEN InfOf(a.n * (IF Sign(b) < 0 THEN -1 ELSE 1))
    ELSE IF b.k = "inf" THEN Int_(0)
    ELSE IF b.n = 0 THEN (IF a.n = 0 THEN NaN ELSE InfOf(Sign(a)))
    ELSE Num(a.n * b.d, a.d * b.n)

\* floor of the rational n/d, d > 0
Floor(n, d) == IF n >= 0 THEN n \div d ELSE -((-n + d - 1) \div d)

\* the nearest integer to n/d, halves to the even neighbour (numpy rint)
RoundHalfEven(n, d) ==
    LET f == Floor(n, d)
        r2 == 2 * (n - f * d)         \* twice the fractional part, times d
    IN  IF r2 < d THEN f
        ELSE IF r2 > d THEN f + 1
        ELSE IF f % 2 = 0 THEN f ELSE f + 1

\* Series.round(): to an integer-valued float; NaN and inf pass through
FRound(a) == IF IsNum(a) THEN Int_(RoundHalfEven(a.n, a.d)) ELSE a

\* Series.round(2)
FRound2(a) == IF IsNum(a) THEN Num(RoundHalfEven(a.n * 100, a.d), 100) ELSE a

\* Series.fillna(0): only NaN is replaced, inf stays
fillna0(a) == IF a.k \in {"nan", "nat", "none"} THEN Int_(0) ELSE a

\* float -> int by astype(int): truncation towards zero
Trunc(a) == IF a.n >= 0 THEN Int_(a.n \div a.d) ELSE Int_(-((-a.n) \div a.d))

FGt(a, b) ==   \* a > b on floats; any comparison with NaN is False
    IF a.k = "nan" \/ b.k = "nan" THEN FALSE
    ELSE IF a.k = "inf" THEN a.n > 0 /\ ~(b.k = "inf" /\ b.n > 0)
    ELSE IF b.k = "inf" THEN b.n < 0
    ELSE a.n * b.d > b.n * a.d


(***************************************************************************)
(* DataProcessor.__init__                                                  *)
(***************************************************************************)
required_fields == <<
    "snapshot_date", "policy_start_year", "business_type_category", "chengdu_branch",
    "second_level_organization", "third_level_organization", "customer_category_3",
    "insurance_type", "is_new_energy_vehicle", "coverage_type", "is_transferred_vehicle",
    "renewal_status", "vehicle_insurance_grade", "highway_risk_grade", "large_truck_score",
    "small_truck_score", "terminal_source", "signed_premium_yuan", "matured_premium_yuan",
    "policy_count", "claim_case_count", "reported_claim_payment_yuan", "expense_amount_yuan",
    "commercial_premium_before_discount_yuan", "premium_plan_yuan",
    "marginal_contribution_amount_yuan", "week_number" >>

\* the keys of field_alias_mapping, in the order of the dict
internal_names == <<
    "snapshot_date", "policy_start_year", "business_type_category", "chengdu_branch",
    "second_level_organization", "third_level_organization", "customer_category_3",
    "insurance_type", "is_new_energy_vehicle", "coverage_type", "is_transferred_vehicle",
    "renewal_status", "vehicle_insurance_grade", "highway_risk_grade", "large_truck_score",
    "small_truck_score", "terminal_source", "signed_premium_wan", "average_premium",
    "matured_premium_wan", "claim_frequency", "claim_case_count", "average_claim_amount",
    "total_claim_wan", "matured_claim_ratio", "expense_ratio", "variable_cost_ratio",
    "commercial_autonomous_coefficient", "week_number" >>

\* the ordered alias list of every key: the name itself, the Chinese name, the
\* English name
field_alias_mapping ==
    [ snapshot_date |-> <<"snapshot_date", "zh_snapshot_date", "en_snapshot_date">>,
      policy_start_year |-> <<"policy_start_year", "zh_policy_start_year", "en_policy_start_year">>,
      business_type_category |-> <<"business_type_category", "zh_business_type_category", "en_business_type_category">>,
      chengdu_branch |-> <<"chengdu_branch", "zh_chengdu_branch", "en_chengdu_branch">>,
      second_level_organization |-> <<"second_level_organization", "zh_second_level_organization", "en_second_level_organization">>,
      third_level_organization |-> <<"third_level_organization", "zh_third_level_organization", "en_third_level_organization">>,
      customer_category_3 |-> <<"customer_category_3", "zh_customer_category_3", "en_customer_category_3">>,
      insurance_type |-> <<"insurance_type", "zh_insurance_type", "en_insurance_type">>,
      is_new_energy_vehicle |-> <<"is_new_energy_vehicle", "zh_is_new_energy_vehicle", "en_is_new_energy_vehicle">>,
      coverage_type |-> <<"coverage_type", "zh_coverage_type", "en_coverage_type">>,
      is_transferred_vehicle |-> <<"is_transferred_vehicle", "zh_is_transferred_vehicle", "en_is_transferred_vehicle">>,
      renewal_status |-> <<"renewal_status", "zh_renewal_status", "en_renewal_status">>,
      vehicle_insurance_grade |-> <<"vehicle_insurance_grade", "zh_vehicle_insurance_grade", "en_vehicle_insurance_grade">>,
      highway_risk_grade |-> <<"highway_risk_grade", "zh_highway_risk_grade", "en_highway_risk_grade">>,
      large_truck_score |-> <<"large_truck_score", "zh_large_truck_score", "en_large_truck_score">>,
      small_truck_score |-> <<"small_truck_score", "zh_small_truck_score", "en_small_truck_score">>,
      terminal_source |-> <<"terminal_source", "zh_terminal_source", "en_terminal_source">>,
      signed_premium_wan |-> <<"signed_premium_wan", "zh_signed_premium_wan", "en_signed_premium_wan">>,
      average_premium |-> <<"average_premium", "zh_average_premium", "en_average_premium">>,
      matured_premium_wan |-> <<"matured_premium_wan", "zh_matured_premium_wan", "en_matured_premium_wan">>,
      claim_frequency |-> <<"claim_frequency", "zh_claim_frequency", "en_claim_frequency">>,
      claim_case_count |-> <<"claim_case_count", "zh_claim_case_count", "en_claim_case_count">>,
      average_claim_amount |-> <<"average_claim_amount", "zh_average_claim_amount", "en_average_claim_amount">>,
      total_claim_wan |-> <<"total_claim_wan", "zh_total_claim_wan", "en_total_claim_wan">>,
      matured_claim_ratio |-> <<"matured_claim_ratio", "zh_matured_claim_ratio", "en_matured_claim_ratio">>,
      expense_ratio |-> <<"expense_ratio", "zh_expense_ratio", "en_expense_ratio">>,
      variable_cost_ratio |-> <<"variable_cost_ratio", "zh_variable_cost_ratio", "en_variable_cost_ratio">>,
      commercial_autonomous_coefficient |-> <<"commercial_autonomous_coefficient", "zh_commercial_autonomous_coefficient", "en_commercial_autonomous_coefficient">>,
      week_number |-> <<"week_number", "zh_week_number", "en_week_number">> ]

\* boolean_map.get(x, False); the numbers 1 and 0 hash like True and False
boolean_map(x) ==
    IF x.k = "bool" THEN x.n = 1
    ELSE IF x.k = "str" THEN x.s \in {"zh_yes", "Y", "true"}
    ELSE IF x.k = "num" THEN x = Int_(1)
    ELSE FALSE

Range(seq) == {seq[i] : i \in 1..Len(seq)}
Columns(d) == DOMAIN d

\* d[col] = v: a new column is appended, an existing one overwritten
SetCol(d, col, v) == [c \in (DOMAIN d) \cup {col} |-> IF c = col THEN v ELSE d[c]]

\* what float(text) gives for the cell texts of the model; NaN = not a number
ParseNumber(text) ==
    CASE text = "1500" -> Int_(1500)
      [] text = "12.0" -> Int_(12)
      [] OTHER -> NaN

\* pd.to_numeric(x, errors='coerce')
pd_to_numeric(x) ==
    CASE x.k \in {"num", "inf", "nan"} -> x
      [] x.k = "bool" -> Int_(x.n)
      [] x.k = "str" -> ParseNumber(x.s)
      [] OTHER -> NaN

(***************************************************************************)
(* DataProcessor.standardize_fields, lines 86-127: an input that already   *)
(* holds the final fields gets the intermediate fields derived back.  The  *)
(* columns are added to the caller's DataFrame, in place.                  *)
(***************************************************************************)
safe_numeric(d, col) == fillna0(pd_to_numeric(d[col]))

\* Series.replace(0, 1)
replace_0_by_1(v) == IF IsZero(v) THEN Int_(1) ELSE v

\* df['x'] = num / den.replace(0, 1); df.loc[den == 0, 'x'] = at_zero
guarded_ratio(num, den, at_zero) ==
    LET r == FDiv(num, replace_0_by_1(den))
    IN  IF IsZero(den) THEN at_zero ELSE r

\* lines 92, 95, 98: yuan -> wan
yuan_to_wan(v) == FDiv(v, Int_(10000))

prep_signed(d) ==
    IF "signed_premium_wan" \notin Columns(d)
    THEN SetCol(d, "signed_premium_wan", yuan_to_wan(safe_numeric(d, "signed_premium_yuan")))
    ELSE d

prep_matured(d) ==
    IF "matured_premium_yuan" \in Columns(d) /\ "matured_premium_wan" \notin Columns(d)
    THEN SetCol(d, "matured_premium_wan", yuan_to_wan(safe_numeric(d, "matured_premium_yuan")))
    ELSE d

prep_claim(d) ==
    IF "reported_claim_payment_yuan" \in Columns(d) /\ "total_claim_wan" \notin Columns(d)
    THEN SetCol(d, "total_claim_wan", yuan_to_wan(safe_numeric(d, "reported_claim_payment_yuan")))
    ELSE d

prep_expense(d) ==
    IF "expense_amount_yuan" \in Columns(d) /\ "expense_ratio" \notin Columns(d)
    THEN SetCol(d, "expense_ratio",
                guarded_ratio(safe_numeric(d, "expense_amount_yuan"),
                              safe_numeric(d, "signed_premium_yuan"), Int_(0)))
    ELSE d

\* the three derivations below read matured_premium_yuan without testing for it
needs_variable_cost(d) ==
    "marginal_contribution_amount_yuan" \in Columns(d) /\ "variable_cost_ratio" \notin Columns(d)

prep_variable_cost(d) ==
    IF needs_variable_cost(d)
    THEN LET mp == safe_numeric(d, "matured_premium_yuan")
             mc == safe_numeric(d, "marginal_contribution_amount_yuan")
             r  == FSub(Int_(1), FDiv(mc, replace_0_by_1(mp)))
         IN  SetCol(d, "variable_cost_ratio", IF IsZero(mp) THEN Int_(0) ELSE r)
    ELSE d

needs_average_premium(d) ==
    "average_premium" \notin Columns(d) /\ "policy_count" \in Columns(d)

prep_average_premium(d) ==
    IF needs_average_premium(d)
    THEN SetCol(d, "average_premium",
                guarded_ratio(safe_numeric(d, "matured_premium_yuan"),
                              safe_numeric(d, "policy_count"), Int_(0)))
    ELSE d

needs_coefficient(d) ==
    /\ "commercial_premium_before_discount_yuan" \in Columns(d)
    /\ "commercial_autonomous_coefficient" \notin Columns(d)

prep_coefficient(d) ==
    IF needs_coefficient(d)
    THEN SetCol(d, "commercial_autonomous_coefficient",
                guarded_ratio(safe_numeric(d, "matured_premium_yuan"),
                              safe_numeric(d, "commercial_premium_before_discount_yuan"),
                              Int_(1)))
    ELSE d

\* df["matured_premium_yuan"] on a frame without that column raises KeyError
reads_missing_matured(d) == "matured_premium_yuan" \notin Columns(d)

\* lines 87-127 as a whole: the frame as far as it got, and what was raised
derive_coefficient(d6) ==
    IF needs_coefficient(d6) /\ reads_missing_matured(d6)
    THEN [df |-> d6, raised |-> "KeyError"]
    ELSE [df |-> prep_coefficient(d6), raised |-> "none"]

derive_average_premium(d5) ==
    IF needs_average_premium(d5) /\ reads_missing_matured(d5)
    THEN [df |-> d5, raised |-> "KeyError"]
    ELSE derive_coefficient(prep_average_premium(d5))

derive_variable_cost(d4) ==
    IF needs_variable_cost(d4) /\ reads_missing_matured(d4)
    THEN [df |-> d4, raised |-> "KeyError"]
    ELSE derive_average_premium(prep_variable_cost(d4))

reverse_derive(d) ==
    IF "signed_premium_yuan" \notin Columns(d) THEN [df |-> d, raised |-> "none"]
    ELSE derive_variable_cost(prep_expense(prep_claim(prep_matured(prep_signed(d)))))

(***************************************************************************)
(* standardize_fields, lines 129-151: alias resolution.                    *)
(***************************************************************************)
\* a variant of first_alias_from without the break: the last alias present wins
RECURSIVE last_alias_from(_, _, _)
last_alias_from(aliases, i, input_columns) ==
    IF i > Len(aliases) THEN 0
    ELSE IF last_alias_from(aliases, i + 1, input_columns) # 0
    THEN last_alias_from(aliases, i + 1, input_columns)
    ELSE IF aliases[i] \in input_columns THEN i ELSE 0

\* the inner loop of lines 134-138: the position of the first alias of
\* internal_name that is a column, 0 when none is
RECURSIVE first_alias_from(_, _, _)
first_alias_from(aliases, i, input_columns) ==
    IF i > Len(aliases) THEN 0
    ELSE IF aliases[i] \in input_columns THEN i
    ELSE first_alias_from(aliases, i + 1, input_columns)

first_alias(internal_name, input_columns) ==
    first_alias_from(field_alias_mapping[internal_name], 1, input_columns)

found_internal_fields_of(input_columns) ==
    {f \in Range(internal_names) : first_alias(f, input_columns) # 0}

\* the alias that line 136 enters for a found field
bound_alias(f, input_columns) == field_alias_mapping[f][first_alias(f, input_columns)]

\* rename_map: alias -> internal name, one entry per found field
rename_map_over(found, input_columns) ==
    [a \in {bound_alias(f, input_columns) : f \in found} |->
        CHOOSE f \in found : bound_alias(f, input_columns) = a]

rename_map_of(input_columns) ==
    rename_map_over(found_internal_fields_of(input_columns), input_columns)

required_for_calc == {
    "signed_premium_wan", "matured_premium_wan", "average_premium",
    "claim_case_count", "total_claim_wan", "expense_ratio",
    "variable_cost_ratio", "commercial_autonomous_coefficient" }

\* line 146: every required field that was not found; the message gives each
\* with field_alias_mapping.get(field), its whole alias list
missing_fields_of(input_columns) ==
    {[field |-> f, aliases |-> field_alias_mapping[f]] :
        f \in required_for_calc \ found_internal_fields_of(input_columns)}

\* df.rename(columns=rename_map)
renamed(c, rmap) == IF c \in DOMAIN rmap THEN rmap[c] ELSE c
df_rename(d, rmap) ==
    [c \in {renamed(x, rmap) : x \in Columns(d)} |->
        d[CHOOSE x \in Columns(d) : renamed(x, rmap) = c]]

(***************************************************************************)
(* standardize_fields, lines 154-198: defaults of the dimension fields.    *)
(***************************************************************************)
\* the year the regular expression (19|20)\d{2}, or else pd.to_datetime,
\* finds in a stripped cell text of the model; 0 when neither finds one
YearInText(text) ==
    CASE text = "2024-03-01" -> 2024
      [] text = "2025" -> 2025
      [] OTHER -> 0

\* extract_year, lines 160-173
extract_year(value) ==
    CASE value.k \in {"nan", "nat", "none"} -> Int_(0)
      [] value.k = "str" -> Int_(YearInText(value.s))
      [] value.k = "num" ->
            IF value.n >= 1900 * value.d /\ value.n <= 2100 * value.d
            THEN Trunc(value)
            \* pd.to_datetime(number) counts nanoseconds from 1970-01-01
            ELSE IF value.n >= 0 THEN Int_(1970) ELSE Int_(1969)
      [] OTHER -> Int_(0)      \* to_datetime raises, the except returns 0

\* -- the week number in a file name; a name is a sequence of characters --
Digits == {"0", "1", "2", "3", "4", "5", "6", "7", "8", "9"}
DigitVal(c) ==
    CASE c = "0" -> 0 [] c = "1" -> 1 [] c = "2" -> 2 [] c = "3" -> 3 [] c = "4" -> 4
      [] c = "5" -> 5 [] c = "6" -> 6 [] c = "7" -> 7 [] c = "8" -> 8 [] c = "9" -> 9

IsDigitAt(name, i) == i >= 1 /\ i <= Len(name) /\ name[i] \in Digits

\* the last position of the run of digits that starts at i (IsDigitAt(name, i))
RECURSIVE run_end(_, _)
run_end(name, i) == IF IsDigitAt(name, i + 1) THEN run_end(name, i + 1) ELSE i

\* int() of the digits name[i..j]
RECURSIVE int_of(_, _, _)
int_of(name, i, j) == IF j < i THEN 0 ELSE 10 * int_of(name, i, j - 1) + DigitVal(name[j])

\* the first position after i that holds no blank (for \s*)
RECURSIVE skip_blanks(_, _)
skip_blanks(name, i) ==
    IF i <= Len(name) /\ name[i] = " " THEN skip_blanks(name, i + 1) ELSE i

\* whether name[i..] starts with the literal lit; each element of lit is the set
\* of characters accepted at that place (re.IGNORECASE: both cases)
starts_with(name, i, lit) ==
    /\ i + Len(lit) - 1 <= Len(name)
    /\ \A j \in 1..Len(lit) : name[i + j - 1] \in lit[j]

\* re.search of <lit>\s*(\d+)<follow>: the leftmost start, 0 when none matches.
\* blanks says whether \s* stands between the literal and the digits; follow is
\* the set of characters required after the digits ({} = nothing required).  The
\* group (\d+) is greedy, and a shorter run is followed by a digit, so a match
\* takes the whole run.
digits_at(name, i, lit, blanks) ==
    IF blanks THEN skip_blanks(name, i + Len(lit)) ELSE i + Len(lit)

followed_by(name, last, follow) ==
    follow # {} => (last + 1 <= Len(name) /\ name[last + 1] \in follow)

match_at(name, i, lit, blanks, follow) ==
    /\ starts_with(name, i, lit)
    /\ IsDigitAt(name, digits_at(name, i, lit, blanks))
    /\ followed_by(name, run_end(name, digits_at(name, i, lit, blanks)), follow)

leftmost(hits) == IF hits = {} THEN 0 ELSE CHOOSE i \in hits : \A h \in hits : i <= h

search(name, lit, blanks, follow) ==
    leftmost({i \in 1..Len(name) : match_at(name, i, lit, blanks, follow)})

\* int(match.group(1))
group1_from(name, j) == int_of(name, j, run_end(name, j))
group1(name, i, lit, blanks) == group1_from(name, digits_at(name, i, lit, blanks))

\* the five patterns with the last one, (\d+)Zhou, tried first
patterns_digits_first == <<
    [lit |-> << >>, blanks |-> FALSE, follow |-> {"Zhou"}],
    [lit |-> <<{"Di"}>>, blanks |-> FALSE, follow |-> {"Zhou"}],
    [lit |-> <<{"Zhou"}>>, blanks |-> FALSE, follow |-> {}],
    [lit |-> <<{"W", "w"}>>, blanks |-> FALSE, follow |-> {}],
    [lit |-> <<{"W", "w"}, {"E", "e"}, {"E", "e"}, {"K", "k"}>>, blanks |-> TRUE, follow |-> {}] >>

\* line 182: the five patterns, in order
patterns == <<
    [lit |-> <<{"Di"}>>, blanks |-> FALSE, follow |-> {"Zhou"}],
    [lit |-> <<{"Zhou"}>>, blanks |-> FALSE, follow |-> {}],
    [lit |-> <<{"W", "w"}>>, blanks |-> FALSE, follow |-> {}],
    [lit |-> <<{"W", "w"}, {"E", "e"}, {"E", "e"}, {"K", "k"}>>, blanks |-> TRUE, follow |-> {}],
    [lit |-> << >>, blanks |-> FALSE, follow |-> {"Zhou"}] >>

\* lines 183-187: the first pattern that matches decides
RECURSIVE week_from_patterns(_, _)
week_of_match(name, p, pat, i) ==
    IF i # 0 THEN group1(name, i, pat.lit, pat.blanks)
    ELSE week_from_patterns(name, p + 1)

week_by_pattern(name, p, pat) ==
    week_of_match(name, p, pat, search(name, pat.lit, pat.blanks, pat.follow))

week_from_patterns(name, p) ==
    IF p > Len(patterns) THEN 40 ELSE week_by_pattern(name, p, patterns[p])

\* lines 178-188; a file name that is None or empty is not searched
week_number_of(filename, user_week) ==
    IF user_week # None THEN user_week
    ELSE IF Len(filename) > 0 THEN Int_(week_from_patterns(filename, 1))
    ELSE Int_(40)

bool_fields == <<"is_new_energy_vehicle", "is_transferred_vehicle">>

\* line 194
other_dimension_fields == <<
    "snapshot_date", "business_type_category", "chengdu_branch",
    "third_level_organization", "customer_category_3", "insurance_type",
    "coverage_type", "renewal_status", "vehicle_insurance_grade", "highway_risk_grade",
    "large_truck_score", "small_truck_score", "terminal_source" >>

\* a variant of default_of that leaves the missing column empty (None)
default_missing(field) == None

\* line 196
default_of(field) == IF field # "snapshot_date" THEN Str("") ELSE NaT

\* line 191
second_level_value == Str("Sichuan")

\* lines 154-198 on the renamed frame r
fill_dimensions(r, filename, user_week) ==
    LET cols == Columns(r) \cup Range(bool_fields) \cup Range(other_dimension_fields)
                \cup {"policy_start_year", "week_number", "second_level_organization"}
    IN  [c \in cols |->
            IF c \in Range(bool_fields)
            THEN Bool(IF c \in Columns(r) THEN boolean_map(r[c]) ELSE boolean_map(Bool(FALSE)))
            ELSE IF c = "policy_start_year"
            THEN (IF c \in Columns(r) THEN extract_year(r[c]) ELSE Int_(0))
            ELSE IF c = "week_number" THEN week_number_of(filename, user_week)
            ELSE IF c = "second_level_organization" THEN second_level_value
            ELSE IF c \in Columns(r) THEN r[c]
            ELSE default_of(c)]

\* lines 129-198 on the frame that the reverse derivation left
resolve_and_fill(pre_df, rmap, missing, filename, user_week) ==
    IF missing # {}
    THEN [raised |-> "ValueError", df |-> pre_df, rename_map |-> rmap,
          missing_fields |-> missing, result_df |-> << >>]
    ELSE [raised |-> "none", df |-> pre_df, rename_map |-> rmap,
          missing_fields |-> {},
          result_df |-> fill_dimensions(df_rename(pre_df, rmap), filename, user_week)]

after_reverse_derive(pre, filename, user_week) ==
    IF pre.raised # "none"
    THEN [raised |-> pre.raised, df |-> pre.df, rename_map |-> << >>,
          missing_fields |-> {}, result_df |-> << >>]
    ELSE resolve_and_fill(pre.df, rename_map_of(Columns(pre.df)),
                          missing_fields_of(Columns(pre.df)), filename, user_week)

\* standardize_fields(df, original_filename, user_week_number): what it raises,
\* what it returns, and the caller's frame as it leaves it
standardize_fields(d, filename, user_week) ==
    after_reverse_derive(reverse_derive(d), filename, user_week)

(***************************************************************************)
(* DataProcessor.calculate_absolute_fields.  It runs on the frame that     *)
(* standardize_fields returned, which holds every column of                *)
(* required_for_calc: these are the eight columns read here.               *)
(***************************************************************************)
\* to_numeric, lines 205-206
to_numeric(v) == fillna0(pd_to_numeric(v))

\* Series.replace(0, 1.0) of lines 210-211
replace_0_by_1_0(v) == IF IsZero(v) THEN Int_(1) ELSE v

\* a variant of wan_to_yuan with the factor of another unit
wan_to_yuan_by_1000(v) == FMul(v, Int_(1000))

\* lines 215, 216, 220: wan -> yuan
wan_to_yuan(v) == FMul(v, Int_(10000))

\* a variant of policy_count_of that leaves out .round()
policy_count_unrounded(matured_yuan, avg_premium) == FDiv(matured_yuan, avg_premium)

\* line 218: (matured / avg_premium).round().astype(int)
policy_count_of(matured_yuan, avg_premium) == FRound(FDiv(matured_yuan, avg_premium))

\* line 217
commercial_premium_of(matured_yuan, coeff) == FDiv(matured_yuan, coeff)

\* line 221
expense_amount_of(signed_yuan, expense_ratio) == FMul(signed_yuan, expense_ratio)

\* line 223
marginal_contribution_of(matured_yuan, variable_cost_ratio) ==
    FMul(matured_yuan, FSub(Int_(1), variable_cost_ratio))

\* line 222: the planned premium is set to the matured premium
premium_plan_of(matured_yuan) == matured_yuan

calculate_absolute_fields(d) ==
    LET signed_premium_wan  == to_numeric(d["signed_premium_wan"])
        matured_premium_wan == to_numeric(d["matured_premium_wan"])
        avg_premium         == replace_0_by_1_0(to_numeric(d["average_premium"]))
        coeff               == replace_0_by_1_0(to_numeric(d["commercial_autonomous_coefficient"]))
        expense_ratio       == to_numeric(d["expense_ratio"])
        variable_cost_ratio == to_numeric(d["variable_cost_ratio"])
        signed_yuan  == wan_to_yuan(signed_premium_wan)
        matured_yuan == wan_to_yuan(matured_premium_wan)
        new == [ signed_premium_yuan |-> signed_yuan,
                 matured_premium_yuan |-> matured_yuan,
                 commercial_premium_before_discount_yuan |->
                     commercial_premium_of(matured_yuan, coeff),
                 policy_count |-> policy_count_of(matured_yuan, avg_premium),
                 claim_case_count |-> Trunc(to_numeric(d["claim_case_count"])),
                 reported_claim_payment_yuan |-> wan_to_yuan(to_numeric(d["total_claim_wan"])),
                 expense_amount_yuan |-> expense_amount_of(signed_yuan, expense_ratio),
                 premium_plan_yuan |-> premium_plan_of(matured_yuan),
                 marginal_contribution_amount_yuan |->
                     marginal_contribution_of(matured_yuan, variable_cost_ratio) ]
    IN  [c \in Columns(d) \cup DOMAIN new |-> IF c \in DOMAIN new THEN new[c] ELSE d[c]]

(***************************************************************************)
(* DataProcessor.finalize_output                                           *)
(***************************************************************************)
\* the branch of lines 235-242 a column name takes (substring tests on the
\* name, first match wins), for the 27 names of required_fields
conversion_of(col) ==
    IF col \in {"signed_premium_yuan", "matured_premium_yuan", "reported_claim_payment_yuan",
                "expense_amount_yuan", "commercial_premium_before_discount_yuan",
                "premium_plan_yuan", "marginal_contribution_amount_yuan",
                "large_truck_score", "small_truck_score"}
    THEN "float"                                 \* 'yuan', 'amount' or 'score'
    ELSE IF col \in {"policy_count", "claim_case_count"} THEN "int"      \* 'count'
    ELSE IF col \in {"policy_start_year", "week_number"} THEN "int"      \* 'year', 'week'
    ELSE IF col = "snapshot_date" THEN "date"                            \* 'date'
    ELSE "keep"

\* the cell texts of the model that pd.to_datetime can parse
DateTexts == {"2024-03-01", "2025"}

\* pd.to_datetime(x, errors='coerce')
pd_to_datetime(x) ==
    CASE x.k = "str" -> IF x.s \in DateTexts THEN [x EXCEPT !.k = "date"] ELSE NaT
      [] x.k = "date" -> x
      [] x.k = "num" -> [k |-> "date", n |-> 0, d |-> 1, s |-> "1970-01-01"]
      [] OTHER -> NaT

convert(kind, v) ==
    CASE kind = "float" -> fillna0(pd_to_numeric(v))
      [] kind = "int" -> Trunc(fillna0(pd_to_numeric(v)))
      [] kind = "date" -> pd_to_datetime(v)
      [] OTHER -> v

\* df.get(field) is None for a column the frame does not have
finalize_output(d) ==
    [c \in Range(required_fields) |->
        convert(conversion_of(c), IF c \in Columns(d) THEN d[c] ELSE None)]

(***************************************************************************)
(* Input files of the ETL.                                                 *)
(***************************************************************************)
\* finalize_output, lines 229-231: output_df[field] = df.get(field) appends a
\* column the frame does not have yet and keeps the place of one it has
RECURSIVE assign_columns(_, _)
assign_columns(columns, fields) ==
    IF fields = << >> THEN columns
    ELSE assign_columns(IF Head(fields) \in Range(columns) THEN columns
                        ELSE Append(columns, Head(fields)),
                        Tail(fields))

output_columns_of(d) == assign_columns(<< >>, required_fields)

MaxCalls == 2       \* standardize_fields runs at most this often on one frame
MaxDropped == 1     \* columns left out of a complete input shape

ratio_columns == required_for_calc
zh_ratio_columns == {field_alias_mapping[f][2] : f \in required_for_calc}
absolute_columns == {
    "signed_premium_yuan", "matured_premium_yuan", "policy_count", "claim_case_count",
    "reported_claim_payment_yuan", "expense_amount_yuan",
    "commercial_premium_before_discount_yuan", "premium_plan_yuan",
    "marginal_contribution_amount_yuan" }

\* columns an input may carry on top of a shape
extra_columns == {
    "signed_premium_yuan", "policy_count", "signed_premium_wan", "en_signed_premium_wan",
    "is_new_energy_vehicle", "zh_third_level_organization", "second_level_organization",
    "en_policy_start_year" }

all_aliases == UNION {Range(field_alias_mapping[f]) : f \in Range(internal_names)}

\* the field an alias belongs to, and its place in the alias list of that field
alias_field == [c \in all_aliases |->
                  CHOOSE f \in Range(internal_names) : c \in Range(field_alias_mapping[f])]
alias_place(c) ==
    IF c \in all_aliases
    THEN CHOOSE i \in 1..3 : field_alias_mapping[alias_field[c]][i] = c
    ELSE 0
field_of(c) == IF c \in all_aliases THEN alias_field[c] ELSE c

\* the cell of a sample row under column c; the aliases of one field hold
\* different values, so that the result shows which column was bound
sample_cell(c) ==
    LET f == field_of(c)
        p == alias_place(c)
    IN  CASE f \in Range(bool_fields) -> Str("zh_yes")
          [] f = "policy_start_year" -> Str("2024-03-01")
          [] f = "week_number" -> Int_(50 + p)
          [] f = "snapshot_date" -> Str("2024-03-01")
          [] f \in {"large_truck_score", "small_truck_score",
                    "vehicle_insurance_grade", "highway_risk_grade"} -> Str("A")
          [] f = "second_level_organization" -> Str("Chongqing")
          [] f \in Range(other_dimension_fields) -> Str("x")
          [] f \in {"signed_premium_wan", "matured_premium_wan"} -> Int_(p)
          [] f = "average_premium" -> Int_(1000 * p)
          [] f = "commercial_autonomous_coefficient" -> Num(p, 4)
          [] f \in {"expense_ratio", "variable_cost_ratio"} -> Num(p, 10)
          [] f = "total_claim_wan" -> Num(p, 2)
          [] f \in {"claim_case_count", "policy_count"} -> Int_(2 + p)
          [] f = "signed_premium_yuan" -> Int_(12000)
          [] f = "matured_premium_yuan" -> Int_(8000)
          [] OTHER -> Int_(1500)

sample_row(cols) == [c \in cols |-> sample_cell(c)]

\* the dimension columns every value row carries
dimension_part == [
    zh_third_level_organization |-> Str("Tianfu"),
    business_type_category |-> Str("x"),
    second_level_organization |-> Str("Chongqing"),
    large_truck_score |-> Str("A"),
    is_new_energy_vehicle |-> Str("zh_yes"),
    policy_start_year |-> Str("2024-03-01") ]

ratio_row(spw, mpw, avg, ccc, tcw, er, vcr, coef) ==
    [ signed_premium_wan |-> spw, matured_premium_wan |-> mpw, average_premium |-> avg,
      claim_case_count |-> ccc, total_claim_wan |-> tcw, expense_ratio |-> er,
      variable_cost_ratio |-> vcr, commercial_autonomous_coefficient |-> coef ]
    @@ dimension_part

absolute_row(sp, mp, pcnt, ccc, rcp, ea, cpbd, plan, mc) ==
    [ signed_premium_yuan |-> sp, matured_premium_yuan |-> mp, policy_count |-> pcnt,
      claim_case_count |-> ccc, reported_claim_payment_yuan |-> rcp,
      expense_amount_yuan |-> ea, commercial_premium_before_discount_yuan |-> cpbd,
      premium_plan_yuan |-> plan, marginal_contribution_amount_yuan |-> mc ]
    @@ dimension_part

\* file names, one character per element
name_plain  == <<"d", "a", "t", "a", ".", "c", "s", "v">>
name_week   == <<"w", "e", "e", "k", " ", "4", "5", ".", "c", "s", "v">>
name_W      == <<"d", "W", "4", "6", "_", "1", "2", "Zhou">>
name_di     == <<"2", "0", "2", "4", "Di", "4", "7", "Zhou", "W", "3">>
name_zhou   == <<"Di", "x", "Zhou", "9">>
name_nzhou  == <<"a", "1", "2", "Zhou">>
no_name     == << >>
filenames == {name_plain, name_week, name_W, name_di, name_zhou, name_nzhou, no_name}

\* the subsets of S with at most k elements
RECURSIVE subsets_up_to(_, _)
subsets_up_to(S, k) ==
    IF k = 0 THEN {{}}
    ELSE LET less == subsets_up_to(S, k - 1)
         IN  less \cup {s \cup {c} : s \in less, c \in S}

\* files whose column set varies: a complete shape, less some columns, plus extras
schema_inputs ==
    UNION {{sample_row((base \ dropped) \cup extra) :
                dropped \in subsets_up_to(base, MaxDropped),
                extra \in SUBSET extra_columns} :
           base \in {ratio_columns, zh_ratio_columns, absolute_columns}}

\* ratio-first legacy rows whose values vary
ratio_inputs ==
    {ratio_row(spw, mpw, avg, ccc, tcw, er, vcr, coef) :
        spw \in {Int_(0), Num(3, 2)},
        mpw \in {Int_(0), Num(1, 2), Int_(1)},
        avg \in {Int_(0), Int_(2000), Int_(3000), Str("abc")},
        ccc \in {Int_(3), Num(5, 2)},
        tcw \in {Num(-1, 4), Num(1, 2)},
        er \in {Int_(0), Num(1, 10)},
        vcr \in {Num(3, 4), Num(5, 4)},
        coef \in {Int_(0), Num(4, 5), NaN}}

\* absolute-first rows whose values vary
absolute_inputs ==
    {absolute_row(sp, mp, pcnt, ccc, rcp, ea, cpbd, plan, mc) :
        sp \in {Int_(0), Int_(10000), Int_(12345)},
        mp \in {Int_(0), Int_(8000)},
        pcnt \in {Int_(0), Int_(4)},
        ccc \in {Int_(2)},
        rcp \in {Int_(-500), Int_(3000)},
        ea \in {Int_(0), Int_(1500)},
        cpbd \in {Int_(0), Int_(10000)},
        plan \in {NaN, Int_(5000)},
        mc \in {Int_(0), Int_(2000)}}

week_row == ratio_row(Int_(1), Int_(1), Int_(2000), Int_(3), Int_(0), Int_(0), Int_(0), Int_(1))

(***************************************************************************)
(* The dashboard generator at rest, while the ETL runs.                    *)
(***************************************************************************)
DashIdle ==
    /\ dpc = "idle"
    /\ csv_rows = << >>
    /\ dash_df = << >>
    /\ kpis = << >>
    /\ charts = << >>
    /\ insights = << >>
    /\ drilldown_data = << >>

(***************************************************************************)
(* The CSV tools at rest, while another program runs.                      *)
(***************************************************************************)
CSVIdle ==
    /\ tool = "none"
    /\ cpc = "idle"
    /\ drop_second = FALSE
    /\ fieldnames = {}
    /\ in_rows = << >>
    /\ rows_read = 0
    /\ out_csv = << >>
    /\ invalid_csv = << >>
    /\ counts = << >>
    /\ findings = {}
    /\ reported_missing = {}
    /\ exit_status = "none"

(***************************************************************************)
(* clean_archive.py at rest, while another program runs.                   *)
(***************************************************************************)
ArchIdle ==
    /\ apc = "idle"
    /\ args = << >>
    /\ archive_dir = << >>
    /\ active_docs = {}
    /\ references = << >>
    /\ report_ = << >>
    /\ candidates = << >>
    /\ next_candidate = 0
    /\ response = "none"
    /\ deleted = {}

(***************************************************************************)
(* The converters and the drilldown script at rest.                        *)
(***************************************************************************)
ConvIdle ==
    /\ conv = "idle"
    /\ vpc = "idle"
    /\ in_files = << >>
    /\ files_done = 0
    /\ old_db = << >>
    /\ db = << >>
    /\ conn = "none"
    /\ ran = << >>
    /\ failed_at = ""
    /\ index_failed = {}
    /\ exit_code = 0

NavIdle ==
    /\ drilldownData = << >>
    /\ currentDrilldown = << >>
    /\ modal_display = "idle"
    /\ breadcrumb = {}
    /\ content = {}

ExtIdle == ArchIdle /\ ConvIdle /\ NavIdle

(***************************************************************************)
(* ETLConverter.process_and_import_files, lines 294-319, for one file:     *)
(* read, standardize_fields, calculate_absolute_fields, finalize_output.   *)
(***************************************************************************)
InitETL ==
    /\ pc = "read"
    /\ \/ /\ file_df \in schema_inputs \cup ratio_inputs \cup absolute_inputs
          /\ original_filename = name_plain
          /\ user_week_number = None
       \/ /\ file_df = week_row
          /\ original_filename \in filenames
          /\ user_week_number \in {None, Int_(7)}
    /\ df = file_df
    /\ result_df = << >>
    /\ rename_map = << >>
    /\ prev_rename_map = << >>
    /\ missing_fields = {}
    /\ raised = "none"
    /\ calls = 0
    /\ output_columns = << >>
    /\ DashIdle
    /\ CSVIdle
    /\ ExtIdle

\* a call of standardize_fields on the frame; a caller may resolve the same
\* frame again
standardize_returns(r) ==
    /\ df' = r.df
    /\ result_df' = r.result_df
    /\ rename_map' = r.rename_map
    /\ prev_rename_map' = rename_map
    /\ missing_fields' = r.missing_fields
    /\ raised' = r.raised
    /\ pc' = IF r.raised = "none" THEN "standardized" ELSE "failed"

Standardize ==
    /\ pc \in {"read", "standardized"}
    /\ calls < MaxCalls
    /\ standardize_returns(standardize_fields(df, original_filename, user_week_number))
    /\ calls' = calls + 1
    /\ UNCHANGED <<file_df, original_filename, user_week_number, output_columns,
                   dash_vars, csv_vars, ext_vars>>

Calculate ==
    /\ pc = "standardized"
    /\ result_df' = calculate_absolute_fields(result_df)
    /\ pc' = "calculated"
    /\ UNCHANGED <<file_df, df, rename_map, prev_rename_map, missing_fields, raised,
                   calls, original_filename, user_week_number, output_columns,
                   dash_vars, csv_vars, ext_vars>>

Finalize ==
    /\ pc = "calculated"
    /\ result_df' = finalize_output(result_df)
    /\ output_columns' = output_columns_of(result_df)
    /\ pc' = "finalized"
    /\ UNCHANGED <<file_df, df, rename_map, prev_rename_map, missing_fields, raised,
                   calls, original_filename, user_week_number, dash_vars, csv_vars, ext_vars>>

NextETL == Standardize \/ Calculate \/ Finalize

SpecETL == InitETL /\ [][NextETL]_vars

(***************************************************************************)
(* Properties of the ETL (SpecETL).                                        *)
(***************************************************************************)
\* the input is ratio-first: it has no final fields and carries the eight
\* calculation columns under their own names
RatioFirst ==
    /\ "signed_premium_yuan" \notin Columns(file_df)
    /\ required_for_calc \subseteq Columns(file_df)

\* the input is absolute-first: it carries every absolute field and none of
\* the intermediate ratio-first columns
AbsoluteFirst ==
    /\ absolute_columns \subseteq Columns(file_df)
    /\ Columns(file_df) \cap all_aliases \subseteq
           {"claim_case_count"} \cup DOMAIN dimension_part

AllNumeric(cols) == \A c \in cols : IsNum(file_df[c])

\* p is an integer nearest to the rational q
NearestInteger(p, q) == IsNum(p) /\ p.d = 1 /\ 2 * Abs(p.n * q.d - q.n) <= q.d

\* C4: for a ratio-first row with non-zero average premium and non-zero
\* autonomous coefficient, calculate_absolute_fields gives: signed premium,
\* matured premium and claim payment = the wan value * 10000; policy_count = an
\* integer nearest to matured premium / average premium; expense_amount = signed
\* premium * expense ratio; marginal_contribution = matured premium * (1 -
\* variable cost ratio); pre-discount premium = matured premium / coefficient.
C4_RatioFirstDerivation ==
    ( /\ pc = "calculated"
      /\ RatioFirst
      /\ AllNumeric(required_for_calc)
      /\ ~IsZero(file_df["average_premium"])
      /\ ~IsZero(file_df["commercial_autonomous_coefficient"]) )
    => LET sp == FMul(file_df["signed_premium_wan"], Int_(10000))
           mp == FMul(file_df["matured_premium_wan"], Int_(10000))
       IN  /\ result_df["signed_premium_yuan"] = sp
           /\ result_df["matured_premium_yuan"] = mp
           /\ result_df["reported_claim_payment_yuan"]
                 = FMul(file_df["total_claim_wan"], Int_(10000))
           /\ NearestInteger(result_df["policy_count"],
                             FDiv(mp, file_df["average_premium"]))
           /\ result_df["expense_amount_yuan"] = FMul(sp, file_df["expense_ratio"])
           /\ result_df["marginal_contribution_amount_yuan"]
                 = FMul(mp, FSub(Int_(1), file_df["variable_cost_ratio"]))
           /\ result_df["commercial_premium_before_discount_yuan"]
                 = FDiv(mp, file_df["commercial_autonomous_coefficient"])

\* C4 witness: a ratio-first row was calculated whose quotient matured premium /
\* average premium (5000 / 3000) is no integer
C4_Witness ==
    /\ pc = "calculated"
    /\ RatioFirst
    /\ AllNumeric(required_for_calc)
    /\ file_df["matured_premium_wan"] = Num(1, 2)
    /\ file_df["average_premium"] = Int_(3000)
    /\ file_df["commercial_autonomous_coefficient"] = Num(4, 5)
    /\ result_df["policy_count"] = Int_(2)

\* C5: in calculate_absolute_fields a zero average premium gives policy_count 0
\* and a zero autonomous coefficient gives pre-discount premium 0
C5_ZeroDenominatorGivesZero ==
    ( pc = "calculated" /\ RatioFirst /\ AllNumeric(required_for_calc) )
    => /\ IsZero(file_df["average_premium"]) => result_df["policy_count"] = Int_(0)
       /\ IsZero(file_df["commercial_autonomous_coefficient"])
             => result_df["commercial_premium_before_discount_yuan"] = Int_(0)

\* the absolute fields
absolute_fields == absolute_columns

\* C6: an absolute-first row leaves the pipeline (standardize_fields,
\* calculate_absolute_fields, finalize_output) with every absolute field equal
\* to its input value
C6_AbsoluteFieldsKept ==
    ( pc = "finalized" /\ AbsoluteFirst )
    => \A f \in absolute_fields : result_df[f] = file_df[f]

\* the three money fields that standardize_fields converts to wan
converted_fields == [
    signed_premium_yuan |-> "signed_premium_wan",
    matured_premium_yuan |-> "matured_premium_wan",
    reported_claim_payment_yuan |-> "total_claim_wan" ]

\* standardize_fields converts field f of the input file
Converted(f) ==
    /\ {"signed_premium_yuan", f} \subseteq Columns(file_df)
    /\ converted_fields[f] \notin Columns(file_df)
    /\ IsNum(file_df[f])

Resolved == calls >= 1 /\ raised # "KeyError"

\* C8: every field is bound to the first alias of its list that is among
\* input_columns (the columns of the frame at line 131): never to a later one
\* when an earlier one is there, at most one column per field, no column for a
\* field without an alias among the columns; and a second resolution of the
\* same frame gives the same rename_map
C8_FirstAliasWins ==
    Resolved =>
        /\ \A f \in Range(internal_names) :
              LET aliases == field_alias_mapping[f]
                  here == {i \in 1..Len(aliases) : aliases[i] \in Columns(df)}
                  bound == {a \in DOMAIN rename_map : rename_map[a] = f}
              IN  /\ Cardinality(bound) <= 1
                  /\ here = {} => bound = {}
                  /\ here # {} =>
                        \E i \in here : /\ bound = {aliases[i]}
                                        /\ \A j \in here : i <= j
        /\ \A a \in DOMAIN rename_map : rename_map[a] \in Range(internal_names)
        /\ calls >= 2 => rename_map = prev_rename_map

\* C8 witness: a frame with two aliases of one field was resolved twice
C8_Witness ==
    /\ calls = 2
    /\ raised = "none"
    /\ {"zh_signed_premium_wan", "en_signed_premium_wan"} \subseteq Columns(df)
    /\ "signed_premium_wan" \notin Columns(df)
    /\ "zh_signed_premium_wan" \in DOMAIN rename_map

\* the required fields none of whose aliases is a column of the frame
Unresolved ==
    {f \in required_for_calc : Range(field_alias_mapping[f]) \cap Columns(df) = {}}

\* C9: standardize_fields either returns, or raises the missing-field error
\* that names every required field without a matching alias, with its aliases;
\* it raises nothing else
C9_OnlyMissingFieldError ==
    calls >= 1 =>
        /\ raised \in {"none", "ValueError"}
        /\ raised = "none" => Unresolved = {} /\ pc # "failed"
        /\ raised = "ValueError" =>
              /\ Unresolved # {}
              /\ missing_fields =
                    {[field |-> f, aliases |-> field_alias_mapping[f]] : f \in Unresolved}

\* the optional dimension fields by the kind of their default
string_dimensions == (Range(other_dimension_fields) \ {"snapshot_date"})
                     \cup {"second_level_organization"}

\* no alias of field f is a column of the input file
Absent(f) == Range(field_alias_mapping[f]) \cap Columns(file_df) = {}

ENUM_MAPPINGS(x) ==
    CASE x = "ShangYeBaoXian"   -> "ShangYeXian"
      [] x = "ShangXian"        -> "ShangYeXian"
      [] x = "ShangYe"          -> "ShangYeXian"
      [] x = "JiaoQiang"        -> "JiaoQiangXian"
      [] x = "JiaoQiangBaoXian" -> "JiaoQiangXian"
      [] x = "QiangZhiXian"     -> "JiaoQiangXian"
      [] OTHER                  -> x

bool_cols == {"is_new_energy_vehicle", "is_transferred_vehicle"}

\* pd.read_csv turns a column whose cells are all True/False (or empty) into
\* Python booleans; any other text in the column leaves every cell a string
read_csv_parses_bool(rows, col) ==
    \A i \in DOMAIN rows : rows[i][col] \in {"True", "False", ""}

\* Series.map({'True': True, 'False': False}): a value that is no key of the
\* mapping (a Python boolean, NaN, another text) becomes NaN
map_bool(rows, col, i) ==
    IF read_csv_parses_bool(rows, col) THEN ""
    ELSE IF rows[i][col] \in {"True", "False"} THEN rows[i][col]
    ELSE ""

load_data(rows) ==
    [i \in DOMAIN rows |->
        [rows[i] EXCEPT
            !.insurance_type = ENUM_MAPPINGS(@),
            !.is_new_energy_vehicle = map_bool(rows, "is_new_energy_vehicle", i),
            !.is_transferred_vehicle = map_bool(rows, "is_transferred_vehicle", i)]]

\* Series.sum()
RECURSIVE col_sum(_, _)
col_sum(d, col) == IF d = << >> THEN 0 ELSE Head(d)[col] + col_sum(Tail(d), col)

\* x / 10000
wan(x) == FDiv(Int_(x), Int_(10000))

\* num / den * 100
pct(num, den) == FMul(FDiv(num, den), Int_(100))

sum_pct(g, num_col, den_col) == pct(Int_(col_sum(g, num_col)), Int_(col_sum(g, den_col)))

(***************************************************************************)
(* calculate_kpis, lines 133-178                                           *)
(***************************************************************************)
kpis_of(sp, mp, n, c, rcp, ea, mc) ==
    [signed_premium         |-> wan(sp),
     matured_premium        |-> wan(mp),
     policy_count           |-> Int_(n),
     claim_case_count       |-> Int_(c),
     reported_claim_payment |-> wan(rcp),
     expense_amount         |-> wan(ea),
     marginal_contribution  |-> wan(mc),
     loss_ratio |->
        IF FGt(wan(mp), Int_(0)) THEN pct(wan(rcp), wan(mp)) ELSE Int_(0),
     expense_ratio |->
        IF FGt(wan(mp), Int_(0)) THEN pct(wan(ea), wan(mp)) ELSE Int_(0),
     contribution_margin_ratio |->
        IF FGt(wan(mp), Int_(0)) THEN pct(wan(mc), wan(mp)) ELSE Int_(0),
     maturity_ratio |->
        IF FGt(wan(sp), Int_(0)) THEN pct(wan(mp), wan(sp)) ELSE Int_(0),
     avg_premium |->
        IF n > 0 THEN FDiv(Int_(sp), Int_(n)) ELSE Int_(0),
     avg_expense |->
        IF n > 0 THEN FDiv(Int_(ea), Int_(n)) ELSE Int_(0),
     avg_contribution |->
        IF n > 0 THEN FDiv(Int_(mc), Int_(n)) ELSE Int_(0),
     avg_claim |->
        IF c > 0 THEN FDiv(Int_(rcp), Int_(c)) ELSE Int_(0)]

calculate_kpis(d) ==
    kpis_of(col_sum(d, "signed_premium_yuan"),
            col_sum(d, "matured_premium_yuan"),
            col_sum(d, "policy_count"),
            col_sum(d, "claim_case_count"),
            col_sum(d, "reported_claim_payment_yuan"),
            col_sum(d, "expense_amount_yuan"),
            col_sum(d, "marginal_contribution_amount_yuan"))

(***************************************************************************)
(* create_kpi_cards, lines 180-210: the value shown and its colour class   *)
(***************************************************************************)
kpi_card(value, color) == [value |-> value, color |-> color]

create_kpi_cards(k) ==
    [signed_premium  |-> kpi_card(FRound2(k.signed_premium), "primary"),
     matured_premium |-> kpi_card(FRound2(k.matured_premium), "primary"),
     policy_count    |-> kpi_card(FRound(k.policy_count), "secondary"),
     loss_ratio      |-> kpi_card(FRound2(k.loss_ratio),
                            IF FGt(k.loss_ratio, Int_(70)) THEN "danger" ELSE "success"),
     expense_ratio   |-> kpi_card(FRound2(k.expense_ratio),
                            IF FGt(k.expense_ratio, Int_(15)) THEN "warning" ELSE "success"),
     contribution_margin_ratio |->
                         kpi_card(FRound2(k.contribution_margin_ratio),
                            IF FGt(k.contribution_margin_ratio, Int_(30))
                            THEN "success" ELSE "warning"),
     avg_premium     |-> kpi_card(FRound2(k.avg_premium), "secondary"),
     avg_claim       |-> kpi_card(FRound2(k.avg_claim), "secondary")]

(***************************************************************************)
(* DataFrame.groupby(col): groups in ascending key order, rows whose key   *)
(* is NaN dropped.  sort_order lists the text keys of the model in         *)
(* ascending (code point) order.                                           *)
(***************************************************************************)
sort_order == <<"A", "A_B", "B_C", "Bus", "C", "CD", "False", "Full", "LS", "Main",
               "T01", "T02", "T03", "T04", "T05", "T06", "T07", "T08", "T09", "T10",
               "T11", "Truck", "True">>

rank(k) == CHOOSE i \in DOMAIN sort_order : sort_order[i] = k

group_keys(d, col) == {d[i][col] : i \in DOMAIN d} \ {""}

sorted_keys(keys) == SelectSeq(sort_order, LAMBDA k : k \in keys)

group_rows(d, col, k) == SelectSeq(d, LAMBDA r : r[col] = k)

\* DataFrame.sort_values(col, ascending) with the default kind='quicksort',
\* which is not a stable sort: rows with equal keys come out in an order the
\* library does not fix.  The set of the orders it may return.
sorts_before(a, b, ascending) == IF ascending THEN FGt(b, a) ELSE FGt(a, b)

\* the rows no other row has to precede
first_candidates(s, col, ascending) ==
    {i \in DOMAIN s : \A j \in DOMAIN s : ~sorts_before(s[j][col], s[i][col], ascending)}

without(s, i) == SubSeq(s, 1, i - 1) \o SubSeq(s, i + 1, Len(s))

RECURSIVE sort_values(_, _, _)
sort_values(s, col, ascending) ==
    IF s = << >> THEN {<< >>}
    ELSE UNION {{<<s[i]>> \o t : t \in sort_values(without(s, i), col, ascending)} :
                  i \in first_candidates(s, col, ascending)}

head(s, n) == SubSeq(s, 1, IF Len(s) < n THEN Len(s) ELSE n)

(***************************************************************************)
(* create_business_type_chart, lines 212-268                               *)
(***************************************************************************)
business_type_entry(k, g) ==
    [business_type_category            |-> k,
     signed_premium_yuan               |-> col_sum(g, "signed_premium_yuan"),
     matured_premium_yuan              |-> col_sum(g, "matured_premium_yuan"),
     policy_count                      |-> col_sum(g, "policy_count"),
     marginal_contribution_amount_yuan |-> col_sum(g, "marginal_contribution_amount_yuan"),
     signed_premium_wan                |-> wan(col_sum(g, "signed_premium_yuan")),
     contribution_margin_ratio         |->
        FRound2(sum_pct(g, "marginal_contribution_amount_yuan", "matured_premium_yuan"))]

business_type_agg(d) ==
    LET ks == sorted_keys(group_keys(d, "business_type_category"))
    IN  [i \in 1..Len(ks) |-> business_type_entry(ks[i], group_rows(d, "business_type_category", ks[i]))]

create_business_type_chart(d) ==
    {head(t, 10) : t \in sort_values(business_type_agg(d), "signed_premium_wan", FALSE)}

(***************************************************************************)
(* create_nev_comparison_chart, lines 270-327                              *)
(***************************************************************************)
nev_label(k) == IF k = "True" THEN "XinNengYuanChe" ELSE "ChuanTongChe"

nev_entry(k, g) ==
    [is_new_energy_vehicle             |-> k,
     signed_premium_yuan               |-> col_sum(g, "signed_premium_yuan"),
     matured_premium_yuan              |-> col_sum(g, "matured_premium_yuan"),
     policy_count                      |-> col_sum(g, "policy_count"),
     reported_claim_payment_yuan       |-> col_sum(g, "reported_claim_payment_yuan"),
     marginal_contribution_amount_yuan |-> col_sum(g, "marginal_contribution_amount_yuan"),
     loss_ratio                        |->
        FRound2(sum_pct(g, "reported_claim_payment_yuan", "matured_premium_yuan")),
     contribution_margin_ratio         |->
        FRound2(sum_pct(g, "marginal_contribution_amount_yuan", "matured_premium_yuan")),
     label                             |-> nev_label(k)]

nev_agg(d) ==
    LET ks == sorted_keys(group_keys(d, "is_new_energy_vehicle"))
    IN  [i \in 1..Len(ks) |-> nev_entry(ks[i], group_rows(d, "is_new_energy_vehicle", ks[i]))]

create_nev_comparison_chart(d) == nev_agg(d)

(***************************************************************************)
(* create_organization_chart, lines 329-364                                *)
(***************************************************************************)
organization_entry(k, g) ==
    [third_level_organization          |-> k,
     signed_premium_yuan               |-> col_sum(g, "signed_premium_yuan"),
     matured_premium_yuan              |-> col_sum(g, "matured_premium_yuan"),
     policy_count                      |-> col_sum(g, "policy_count"),
     marginal_contribution_amount_yuan |-> col_sum(g, "marginal_contribution_amount_yuan"),
     signed_premium_wan                |-> wan(col_sum(g, "signed_premium_yuan")),
     contribution_margin_ratio         |->
        FRound2(sum_pct(g, "marginal_contribution_amount_yuan", "matured_premium_yuan"))]

organization_agg(d) ==
    LET ks == sorted_keys(group_keys(d, "third_level_organization"))
    IN  [i \in 1..Len(ks) |-> organization_entry(ks[i], group_rows(d, "third_level_organization", ks[i]))]

create_organization_chart(d) ==
    sort_values(organization_agg(d), "signed_premium_wan", TRUE)

(***************************************************************************)
(* create_coverage_type_chart, lines 366-390                               *)
(***************************************************************************)
coverage_entry(k, g) ==
    [coverage_type       |-> k,
     signed_premium_yuan |-> col_sum(g, "signed_premium_yuan"),
     policy_count        |-> col_sum(g, "policy_count"),
     signed_premium_wan  |-> wan(col_sum(g, "signed_premium_yuan"))]

coverage_chart_agg(d) ==
    LET ks == sorted_keys(group_keys(d, "coverage_type"))
    IN  [i \in 1..Len(ks) |-> coverage_entry(ks[i], group_rows(d, "coverage_type", ks[i]))]

create_coverage_type_chart(d) == coverage_chart_agg(d)

(***************************************************************************)
(* groupby(['policy_start_year', 'week_number'])                           *)
(***************************************************************************)
week_keys(d) == {<<d[i].policy_start_year, d[i].week_number>> : i \in DOMAIN d}

week_key_before(j, k) == j[1] < k[1] \/ (j[1] = k[1] /\ j[2] < k[2])

sorted_week_keys(keys) ==
    [p \in 1..Cardinality(keys) |->
        CHOOSE k \in keys : Cardinality({j \in keys : week_key_before(j, k)}) = p - 1]

week_rows(d, k) ==
    SelectSeq(d, LAMBDA r : r.policy_start_year = k[1] /\ r.week_number = k[2])

\* loss ratio > 70 or expense ratio > 15
is_risk(loss_ratio, expense_ratio) ==
    FGt(loss_ratio, Int_(70)) \/ FGt(expense_ratio, Int_(15))

(***************************************************************************)
(* create_weekly_trend_chart, lines 392-548: the columns of df_weekly that *)
(* the traces plot                                                         *)
(***************************************************************************)
weekly_trend_ratio(g, num_col) ==
    FRound2(fillna0(sum_pct(g, num_col, "matured_premium_yuan")))

weekly_trend_entry(k, g) ==
    [policy_start_year                 |-> k[1],
     week_number                       |-> k[2],
     signed_premium_yuan               |-> col_sum(g, "signed_premium_yuan"),
     matured_premium_yuan              |-> col_sum(g, "matured_premium_yuan"),
     reported_claim_payment_yuan       |-> col_sum(g, "reported_claim_payment_yuan"),
     expense_amount_yuan               |-> col_sum(g, "expense_amount_yuan"),
     marginal_contribution_amount_yuan |-> col_sum(g, "marginal_contribution_amount_yuan"),
     policy_count                      |-> col_sum(g, "policy_count"),
     loss_ratio                |-> weekly_trend_ratio(g, "reported_claim_payment_yuan"),
     expense_ratio             |-> weekly_trend_ratio(g, "expense_amount_yuan"),
     contribution_margin_ratio |-> weekly_trend_ratio(g, "marginal_contribution_amount_yuan"),
     signed_premium_wan        |-> wan(col_sum(g, "signed_premium_yuan")),
     is_risk |-> is_risk(weekly_trend_ratio(g, "reported_claim_payment_yuan"),
                         weekly_trend_ratio(g, "expense_amount_yuan"))]

weekly_trend_agg(d) ==
    LET ks == sorted_week_keys(week_keys(d))
    IN  [i \in 1..Len(ks) |-> weekly_trend_entry(ks[i], week_rows(d, ks[i]))]

create_weekly_trend_chart(d) == weekly_trend_agg(d)

(***************************************************************************)
(* generate_weekly_insights, lines 550-617                                 *)
(***************************************************************************)
weekly_insight_ratio(g, num_col) == fillna0(sum_pct(g, num_col, "matured_premium_yuan"))

weekly_insight_entry(k, g) ==
    [policy_start_year                 |-> k[1],
     week_number                       |-> k[2],
     signed_premium_yuan               |-> col_sum(g, "signed_premium_yuan"),
     matured_premium_yuan              |-> col_sum(g, "matured_premium_yuan"),
     reported_claim_payment_yuan       |-> col_sum(g, "reported_claim_payment_yuan"),
     expense_amount_yuan               |-> col_sum(g, "expense_amount_yuan"),
     marginal_contribution_amount_yuan |-> col_sum(g, "marginal_contribution_amount_yuan"),
     loss_ratio                |-> weekly_insight_ratio(g, "reported_claim_payment_yuan"),
     expense_ratio             |-> weekly_insight_ratio(g, "expense_amount_yuan"),
     contribution_margin_ratio |-> weekly_insight_ratio(g, "marginal_contribution_amount_yuan")]

\* (last - first) / first * 100 on the signed premium
premium_change(w) ==
    pct(FSub(Int_(w[Len(w)].signed_premium_yuan), Int_(w[1].signed_premium_yuan)),
        Int_(w[1].signed_premium_yuan))

RECURSIVE value_sum(_, _)
value_sum(w, col) ==
    IF w = << >> THEN Int_(0) ELSE FAdd(Head(w)[col], value_sum(Tail(w), col))

\* Series.mean()
mean(w, col) == FDiv(value_sum(w, col), Int_(Len(w)))

risk_weeks(w) == SelectSeq(w, LAMBDA e : is_risk(e.loss_ratio, e.expense_ratio))

performance(avg_margin) ==
    IF FGt(avg_margin, Int_(35)) THEN "YouXiu"
    ELSE IF FGt(avg_margin, Int_(30)) THEN "LiangHao"
    ELSE "XuGaiShan"

\* abs(x)
FAbs(a) == IF Sign(a) < 0 THEN FNeg(a) ELSE a

\* f"{x:.1f}"
format_1f(a) == IF IsNum(a) THEN Num(RoundHalfEven(a.n * 10, a.d), 10) ELSE a

insights_of(w) ==
    [premium_change |-> IF Len(w) > 1 THEN premium_change(w) ELSE None,
     premium_change_text |-> IF Len(w) > 1 THEN format_1f(FAbs(premium_change(w)))
                             ELSE None,
     trend          |-> IF Len(w) > 1
                        THEN (IF FGt(premium_change(w), Int_(0)) THEN "ShangSheng"
                              ELSE "XiaJiang")
                        ELSE "",
     risk_week_nums |-> [i \in 1..Len(risk_weeks(w)) |-> risk_weeks(w)[i].week_number],
     avg_margin     |-> mean(w, "contribution_margin_ratio"),
     avg_margin_text |-> format_1f(mean(w, "contribution_margin_ratio")),
     performance    |-> performance(mean(w, "contribution_margin_ratio"))]

weekly_insight_agg(d) ==
    LET ks == sorted_week_keys(week_keys(d))
    IN  [i \in 1..Len(ks) |-> weekly_insight_entry(ks[i], week_rows(d, ks[i]))]

generate_weekly_insights(d) == insights_of(weekly_insight_agg(d))

(***************************************************************************)
(* create_drilldown_data, lines 619-710                                    *)
(***************************************************************************)
\* df['week_number'].unique(): the weeks in order of first appearance
first_rows(d) ==
    {i \in DOMAIN d : \A j \in 1..(i - 1) : d[j].week_number # d[i].week_number}

weeks_over(d, firsts) ==
    [p \in 1..Cardinality(firsts) |->
        d[CHOOSE i \in firsts : Cardinality({j \in firsts : j < i}) = p - 1].week_number]

weeks(d) == weeks_over(d, first_rows(d))

week_key(week) == "week_" \o ToString(week)

week_data(d, week) == SelectSeq(d, LAMBDA r : r.week_number = week)

org_entry(k, g) ==
    [third_level_organization    |-> k,
     matured_premium_yuan        |-> col_sum(g, "matured_premium_yuan"),
     reported_claim_payment_yuan |-> col_sum(g, "reported_claim_payment_yuan"),
     expense_amount_yuan         |-> col_sum(g, "expense_amount_yuan"),
     loss_ratio    |->
        FRound2(sum_pct(g, "reported_claim_payment_yuan", "matured_premium_yuan")),
     expense_ratio |->
        FRound2(sum_pct(g, "expense_amount_yuan", "matured_premium_yuan"))]

business_entry(k, g) ==
    [business_type_category      |-> k,
     matured_premium_yuan        |-> col_sum(g, "matured_premium_yuan"),
     reported_claim_payment_yuan |-> col_sum(g, "reported_claim_payment_yuan"),
     expense_amount_yuan         |-> col_sum(g, "expense_amount_yuan"),
     loss_ratio    |->
        FRound2(sum_pct(g, "reported_claim_payment_yuan", "matured_premium_yuan"))]

coverage_agg_entry(k, g) ==
    [coverage_type               |-> k,
     matured_premium_yuan        |-> col_sum(g, "matured_premium_yuan"),
     reported_claim_payment_yuan |-> col_sum(g, "reported_claim_payment_yuan"),
     loss_ratio    |->
        FRound2(sum_pct(g, "reported_claim_payment_yuan", "matured_premium_yuan"))]

renewal_status_of(k) == IF k = "True" THEN "ZhuanBao" ELSE "XuBao"

renewal_entry(k, g) ==
    [is_transferred_vehicle      |-> k,
     matured_premium_yuan        |-> col_sum(g, "matured_premium_yuan"),
     reported_claim_payment_yuan |-> col_sum(g, "reported_claim_payment_yuan"),
     loss_ratio    |->
        FRound2(sum_pct(g, "reported_claim_payment_yuan", "matured_premium_yuan")),
     status        |-> renewal_status_of(k)]

\* the columns walked by the nested loops, outermost first
drill_columns == <<"third_level_organization", "business_type_category", "coverage_type">>

\* week_data[week_data[col1] == v1][...]: the rows selected along a path
RECURSIVE path_rows(_, _)
path_rows(wd, path) ==
    IF path = << >> THEN wd
    ELSE group_rows(path_rows(wd, SubSeq(path, 1, Len(path) - 1)),
                    drill_columns[Len(path)], path[Len(path)])

\* the paths of n components the loops visit: each component is a group key
\* of the rows selected by the components before it
RECURSIVE paths(_, _)
paths(wd, n) ==
    IF n = 0 THEN {<< >>}
    ELSE UNION {{Append(p, k) : k \in group_keys(path_rows(wd, p), drill_columns[n])} :
                p \in paths(wd, n - 1)}

\* f"{org}_{biz}" and f"{org}_{biz}_{cov}"
RECURSIVE join(_)
join(path) ==
    IF Len(path) = 1 THEN path[1]
    ELSE join(SubSeq(path, 1, Len(path) - 1)) \o "_" \o path[Len(path)]

\* the loops visit paths in ascending order of their components
RECURSIVE visited_later(_, _)
visited_later(p, q) ==
    IF p = << >> THEN FALSE
    ELSE \/ rank(Head(p)) > rank(Head(q))
         \/ Head(p) = Head(q) /\ visited_later(Tail(p), Tail(q))

\* dict[key] = value: of the paths that join to one key the last visited
\* one leaves its value
last_writer(ps, key) ==
    CHOOSE p \in ps : /\ join(p) = key
                      /\ \A q \in ps : join(q) = key /\ q # p => visited_later(p, q)

org_agg(d) ==
    LET ks == sorted_keys(group_keys(d, "third_level_organization"))
    IN  [i \in 1..Len(ks) |-> org_entry(ks[i], group_rows(d, "third_level_organization", ks[i]))]

business_agg(d) ==
    LET ks == sorted_keys(group_keys(d, "business_type_category"))
    IN  [i \in 1..Len(ks) |-> business_entry(ks[i], group_rows(d, "business_type_category", ks[i]))]

coverage_agg(d) ==
    LET ks == sorted_keys(group_keys(d, "coverage_type"))
    IN  [i \in 1..Len(ks) |-> coverage_agg_entry(ks[i], group_rows(d, "coverage_type", ks[i]))]

renewal_agg(d) ==
    LET ks == sorted_keys(group_keys(d, "is_transferred_vehicle"))
    IN  [i \in 1..Len(ks) |-> renewal_entry(ks[i], group_rows(d, "is_transferred_vehicle", ks[i]))]

\* the aggregate stored under the key of a path of n components
level_agg(n, g) ==
    CASE n = 1 -> business_agg(g)
      [] n = 2 -> coverage_agg(g)
      [] n = 3 -> renewal_agg(g)

level_dict(wd, n, ps) ==
    [key \in {join(p) : p \in ps} |->
        level_agg(n, path_rows(wd, last_writer(ps, key)))]

drill_week(wd) ==
    [organizations  |-> org_agg(wd),
     business_types |-> level_dict(wd, 1, paths(wd, 1)),
     coverage_types |-> level_dict(wd, 2, paths(wd, 2)),
     renewal_status |-> level_dict(wd, 3, paths(wd, 3))]

create_drilldown_over(d, ws) ==
    [key \in {week_key(ws[i]) : i \in DOMAIN ws} |->
        drill_week(week_data(d, CHOOSE w \in Range(ws) : week_key(w) = key))]

create_drilldown_data(d) == create_drilldown_over(d, weeks(d))

(***************************************************************************)
(* CSV files given to the dashboard generator                              *)
(***************************************************************************)
MaxRows == 2

csv_row(year, week, dims, flags, sp, mp, n, c, rcp, ea, mc) ==
    [policy_start_year                 |-> year,
     week_number                       |-> week,
     third_level_organization          |-> dims[1],
     business_type_category            |-> dims[2],
     coverage_type                     |-> dims[3],
     insurance_type                    |-> dims[4],
     is_new_energy_vehicle             |-> flags[1],
     is_transferred_vehicle            |-> flags[2],
     signed_premium_yuan               |-> sp,
     matured_premium_yuan              |-> mp,
     policy_count                      |-> n,
     claim_case_count                  |-> c,
     reported_claim_payment_yuan       |-> rcp,
     expense_amount_yuan               |-> ea,
     marginal_contribution_amount_yuan |-> mc]

\* two weeks with margin ratios 50% and 75%
row_week44 ==
    csv_row(2024, 44, <<"CD", "Bus", "Main", "ShangYeXian">>, <<"True", "False">>,
            100, 100, 1, 1, 50, 10, 50)
row_week45 ==
    csv_row(2024, 45, <<"CD", "Truck", "Full", "JiaoQiang">>, <<"False", "True">>,
            200, 200, 2, 1, 150, 40, 150)
\* no premium yet, a claim already paid; flags written as Y/N
row_claim_only ==
    csv_row(2024, 45, <<"LS", "Bus", "Main", "ShangXian">>, <<"Y", "N">>,
            0, 0, 0, 1, 50, 5, -55)
\* nothing booked at all, same week number one year later
row_empty ==
    csv_row(2025, 44, <<"LS", "Truck", "Main", "JiaoQiangXian">>, <<"False", "False">>,
            0, 0, 0, 0, 0, 0, 0)
\* a cancelled policy: premiums refunded
row_refund ==
    csv_row(2024, 44, <<"CD", "Bus", "Full", "ShangYeXian">>, <<"True", "True">>,
            -100, -100, 0, 1, 50, 0, -20)
\* no organization recorded
row_no_org ==
    csv_row(2024, 46, <<"", "Bus", "Main", "">>, <<"False", "">>,
            300, 300, 3, 2, 240, 60, 0)

\* names with an underscore: organization "A" with business type "B_C" and
\* organization "A_B" with business type "C", in the same week
row_a_bc ==
    csv_row(2024, 44, <<"A", "B_C", "Main", "ShangYeXian">>, <<"No", "True">>,
            400, 400, 4, 1, 100, 20, 280)
row_ab_c ==
    csv_row(2024, 44, <<"A_B", "C", "Main", "ShangYeXian">>, <<"No", "False">>,
            500, 500, 5, 2, 400, 50, 50)

\* half of the signed premium is earned: signed 400, matured 200, expenses 40
row_unearned ==
    csv_row(2024, 46, <<"CD", "Truck", "Full", "ShangYeXian">>, <<"False", "False">>,
            400, 200, 2, 0, 0, 40, 160)

row_pool == {row_week44, row_week45, row_claim_only, row_empty, row_refund, row_no_org,
             row_a_bc, row_ab_c, row_unearned}

\* eleven business types in one week: nine with premiums 1000, 900 ... 200
\* and two with the premium 100
ranking_types == <<"T01", "T02", "T03", "T04", "T05", "T06", "T07", "T08", "T09", "T10", "T11">>

ranking_premium(i) == IF i < 10 THEN 1100 - 100 * i ELSE 100

ranking_row(i) ==
    csv_row(2024, 44, <<"CD", ranking_types[i], "Main", "ShangYeXian">>, <<"No", "No">>,
            ranking_premium(i), ranking_premium(i), 1, 0, 0, 0, ranking_premium(i))

ranking_file == [i \in DOMAIN ranking_types |-> ranking_row(i)]

\* one week whose expense ratio is 15.003%: above 15, and 15.00 when rounded
\* to two decimals
row_near_threshold ==
    csv_row(2024, 47, <<"CD", "Bus", "Main", "ShangYeXian">>, <<"False", "False">>,
            100000, 100000, 1, 0, 0, 15003, 84997)

threshold_file == <<row_near_threshold>>

csv_files ==
    UNION {[1..n -> row_pool] : n \in 0..MaxRows} \cup {ranking_file, threshold_file}

ETLIdle ==
    /\ pc = "idle"
    /\ file_df = << >>
    /\ df = << >>
    /\ result_df = << >>
    /\ rename_map = << >>
    /\ prev_rename_map = << >>
    /\ missing_fields = {}
    /\ raised = "none"
    /\ calls = 0
    /\ original_filename = name_plain
    /\ user_week_number = None
    /\ output_columns = << >>

no_charts ==
    [week_info     |-> << >>,
     kpi_cards     |-> << >>,
     business_type |-> << >>,
     nev           |-> << >>,
     organization  |-> << >>,
     coverage      |-> << >>,
     weekly_trend  |-> << >>]

(***************************************************************************)
(* DashboardGenerator.generate, lines 1178-1207, and generate_html, lines  *)
(* 712-1176: the builders run one after the other; an exception in any of  *)
(* them ends the run.                                                      *)
(***************************************************************************)
InitDash ==
    /\ dpc = "start"
    /\ csv_rows \in csv_files
    /\ dash_df = << >>
    /\ kpis = << >>
    /\ charts = no_charts
    /\ insights = << >>
    /\ drilldown_data = << >>
    /\ ETLIdle
    /\ CSVIdle
    /\ ExtIdle

LoadData ==
    /\ dpc = "start"
    /\ dash_df' = load_data(csv_rows)
    /\ dpc' = "loaded"
    /\ UNCHANGED <<csv_rows, kpis, charts, insights, drilldown_data, etl_vars, csv_vars, ext_vars>>

CalculateKpis ==
    /\ dpc = "loaded"
    /\ kpis' = calculate_kpis(dash_df)
    /\ dpc' = "kpis"
    /\ UNCHANGED <<csv_rows, dash_df, charts, insights, drilldown_data, etl_vars, csv_vars, ext_vars>>

\* generate_html up to create_kpi_cards; .iloc[0] of a frame without rows
\* raises IndexError
CreateKpiCards ==
    /\ dpc = "kpis"
    /\ IF dash_df = << >>
       THEN /\ dpc' = "failed"
            /\ UNCHANGED charts
       ELSE /\ charts' = [charts EXCEPT
                            !.week_info = <<dash_df[1].policy_start_year,
                                            dash_df[1].week_number>>,
                            !.kpi_cards = create_kpi_cards(kpis)]
            /\ dpc' = "kpi_cards"
    /\ UNCHANGED <<csv_rows, dash_df, kpis, insights, drilldown_data, etl_vars, csv_vars, ext_vars>>

CreateBusinessTypeChart ==
    /\ dpc = "kpi_cards"
    /\ \E chart \in create_business_type_chart(dash_df) :
          charts' = [charts EXCEPT !.business_type = chart]
    /\ dpc' = "business_type"
    /\ UNCHANGED <<csv_rows, dash_df, kpis, insights, drilldown_data, etl_vars, csv_vars, ext_vars>>

CreateNevComparisonChart ==
    /\ dpc = "business_type"
    /\ charts' = [charts EXCEPT !.nev = create_nev_comparison_chart(dash_df)]
    /\ dpc' = "nev"
    /\ UNCHANGED <<csv_rows, dash_df, kpis, insights, drilldown_data, etl_vars, csv_vars, ext_vars>>

CreateOrganizationChart ==
    /\ dpc = "nev"
    /\ \E chart \in create_organization_chart(dash_df) :
          charts' = [charts EXCEPT !.organization = chart]
    /\ dpc' = "organization"
    /\ UNCHANGED <<csv_rows, dash_df, kpis, insights, drilldown_data, etl_vars, csv_vars, ext_vars>>

CreateCoverageTypeChart ==
    /\ dpc = "organization"
    /\ charts' = [charts EXCEPT !.coverage = create_coverage_type_chart(dash_df)]
    /\ dpc' = "coverage"
    /\ UNCHANGED <<csv_rows, dash_df, kpis, insights, drilldown_data, etl_vars, csv_vars, ext_vars>>

GenerateWeeklyInsights ==
    /\ dpc = "coverage"
    /\ insights' = generate_weekly_insights(dash_df)
    /\ dpc' = "insights"
    /\ UNCHANGED <<csv_rows, dash_df, kpis, charts, drilldown_data, etl_vars, csv_vars, ext_vars>>

CreateWeeklyTrendChart ==
    /\ dpc = "insights"
    /\ charts' = [charts EXCEPT !.weekly_trend = create_weekly_trend_chart(dash_df)]
    /\ dpc' = "weekly_trend"
    /\ UNCHANGED <<csv_rows, dash_df, kpis, insights, drilldown_data, etl_vars, csv_vars, ext_vars>>

\* the last builder; the page is written after it
CreateDrilldownData ==
    /\ dpc = "weekly_trend"
    /\ drilldown_data' = create_drilldown_data(dash_df)
    /\ dpc' = "done"
    /\ UNCHANGED <<csv_rows, dash_df, kpis, charts, insights, etl_vars, csv_vars, ext_vars>>

NextDash ==
    \/ LoadData
    \/ CalculateKpis
    \/ CreateKpiCards
    \/ CreateBusinessTypeChart
    \/ CreateNevComparisonChart
    \/ CreateOrganizationChart
    \/ CreateCoverageTypeChart
    \/ GenerateWeeklyInsights
    \/ CreateWeeklyTrendChart
    \/ CreateDrilldownData

SpecDash == InitDash /\ [][NextDash]_vars

(***************************************************************************)
(* Properties of the dashboard generator (SpecDash).                       *)
(***************************************************************************)
\* every group of the file has a positive premium, so that no division by
\* zero is involved
AllPositive ==
    \A i \in DOMAIN dash_df : /\ dash_df[i].matured_premium_yuan > 0
                              /\ dash_df[i].signed_premium_yuan > 0

\* 100 * sum(num_col) / sum("matured_premium_yuan") over the rows g, to two
\* decimals
SummedRatio(g, num_col) == FRound2(sum_pct(g, num_col, "matured_premium_yuan"))

\* the ratios of the KPIs, the charts, the weekly trend and the drilldown
\* are ratios of summed fields
RatiosOfGroupsFromSums ==
    /\ kpis.loss_ratio =
          sum_pct(dash_df, "reported_claim_payment_yuan", "matured_premium_yuan")
    /\ kpis.expense_ratio =
          sum_pct(dash_df, "expense_amount_yuan", "matured_premium_yuan")
    /\ kpis.contribution_margin_ratio =
          sum_pct(dash_df, "marginal_contribution_amount_yuan", "matured_premium_yuan")
    /\ kpis.maturity_ratio =
          sum_pct(dash_df, "matured_premium_yuan", "signed_premium_yuan")
    /\ \A i \in DOMAIN charts.business_type :
          charts.business_type[i].contribution_margin_ratio =
             SummedRatio(group_rows(dash_df, "business_type_category",
                                    charts.business_type[i].business_type_category),
                         "marginal_contribution_amount_yuan")
    /\ \A i \in DOMAIN charts.organization :
          charts.organization[i].contribution_margin_ratio =
             SummedRatio(group_rows(dash_df, "third_level_organization",
                                    charts.organization[i].third_level_organization),
                         "marginal_contribution_amount_yuan")
    /\ \A i \in DOMAIN charts.nev :
          charts.nev[i].loss_ratio =
             SummedRatio(group_rows(dash_df, "is_new_energy_vehicle",
                                    charts.nev[i].is_new_energy_vehicle),
                         "reported_claim_payment_yuan")
    /\ \A i \in DOMAIN charts.weekly_trend :
          /\ charts.weekly_trend[i].loss_ratio =
                SummedRatio(week_rows(dash_df, <<charts.weekly_trend[i].policy_start_year,
                                                 charts.weekly_trend[i].week_number>>),
                            "reported_claim_payment_yuan")
          /\ charts.weekly_trend[i].contribution_margin_ratio =
                SummedRatio(week_rows(dash_df, <<charts.weekly_trend[i].policy_start_year,
                                                 charts.weekly_trend[i].week_number>>),
                            "marginal_contribution_amount_yuan")
    /\ \A i \in DOMAIN dash_df :
          \A j \in DOMAIN drilldown_data[week_key(dash_df[i].week_number)].organizations :
             LET e == drilldown_data[week_key(dash_df[i].week_number)].organizations[j]
             IN  e.loss_ratio =
                    SummedRatio(group_rows(week_data(dash_df, dash_df[i].week_number),
                                           "third_level_organization",
                                           e.third_level_organization),
                                "reported_claim_payment_yuan")

\* C1: every ratio the dashboard generator reports for a set of rows, the
\* average margin ratio of the weekly insights included, is 100 * (sum of the
\* numerator field) / (sum of the denominator field) over the set, never a
\* mean of ratios.
C1_RatiosFromSummedFields ==
    (dpc = "done" /\ AllPositive) =>
        /\ RatiosOfGroupsFromSums
        /\ insights.avg_margin_text =
              format_1f(sum_pct(dash_df, "marginal_contribution_amount_yuan",
                                "matured_premium_yuan"))

\* safe_div(a, 0) = 0 and safe_div(a, b) = a / b for b # 0
safe_div(a, b) == IF b = 0 THEN Int_(0) ELSE FDiv(Int_(a), Int_(b))

safe_pct(a, b) == FMul(safe_div(a, b), Int_(100))

\* C2: every ratio computed by calculate_kpis is 0 when its denominator is
\* exactly 0 and numerator / denominator for every other denominator, a
\* negative one included.
C2_SafeDivision ==
    dpc \notin {"start", "loaded"} =>
        /\ kpis.loss_ratio =
              safe_pct(col_sum(dash_df, "reported_claim_payment_yuan"),
                       col_sum(dash_df, "matured_premium_yuan"))
        /\ kpis.expense_ratio =
              safe_pct(col_sum(dash_df, "expense_amount_yuan"),
                       col_sum(dash_df, "matured_premium_yuan"))
        /\ kpis.contribution_margin_ratio =
              safe_pct(col_sum(dash_df, "marginal_contribution_amount_yuan"),
                       col_sum(dash_df, "matured_premium_yuan"))
        /\ kpis.maturity_ratio =
              safe_pct(col_sum(dash_df, "matured_premium_yuan"),
                       col_sum(dash_df, "signed_premium_yuan"))
        /\ kpis.avg_premium =
              safe_div(col_sum(dash_df, "signed_premium_yuan"),
                       col_sum(dash_df, "policy_count"))
        /\ kpis.avg_expense =
              safe_div(col_sum(dash_df, "expense_amount_yuan"),
                       col_sum(dash_df, "policy_count"))
        /\ kpis.avg_contribution =
              safe_div(col_sum(dash_df, "marginal_contribution_amount_yuan"),
                       col_sum(dash_df, "policy_count"))
        /\ kpis.avg_claim =
              safe_div(col_sum(dash_df, "reported_claim_payment_yuan"),
                       col_sum(dash_df, "claim_case_count"))

\* a ratio emitted for a group: a number, and 0 when the group's summed
\* matured premium is 0
SafeRatio(ratio, matured) == IsNum(ratio) /\ (matured = 0 => IsZero(ratio))

SafeEntries(entries, ratio_cols) ==
    \A i \in DOMAIN entries : \A col \in ratio_cols :
        SafeRatio(entries[i][col], entries[i].matured_premium_yuan)

SafeLevel(level, ratio_cols) ==
    \A key \in DOMAIN level : SafeEntries(level[key], ratio_cols)

\* C3: for any group whose summed matured premium is 0, every ratio the
\* chart and drilldown builders emit for the group is 0, and no emitted
\* ratio is NaN or an infinity.
C3_GroupRatiosSafe ==
    dpc = "done" =>
        /\ SafeEntries(charts.business_type, {"contribution_margin_ratio"})
        /\ SafeEntries(charts.nev, {"loss_ratio", "contribution_margin_ratio"})
        /\ SafeEntries(charts.organization, {"contribution_margin_ratio"})
        /\ SafeEntries(charts.weekly_trend,
                       {"loss_ratio", "expense_ratio", "contribution_margin_ratio"})
        /\ \A wk \in DOMAIN drilldown_data :
              /\ SafeEntries(drilldown_data[wk].organizations,
                             {"loss_ratio", "expense_ratio"})
              /\ SafeLevel(drilldown_data[wk].business_types, {"loss_ratio"})
              /\ SafeLevel(drilldown_data[wk].coverage_types, {"loss_ratio"})
              /\ SafeLevel(drilldown_data[wk].renewal_status, {"loss_ratio"})

\* the week-level ratios alone: fillna(0) removes NaN and leaves infinities
C3_WeeklyTrendOnly ==
    dpc = "done" =>
        SafeEntries(charts.weekly_trend,
                    {"loss_ratio", "expense_ratio", "contribution_margin_ratio"})

(***************************************************************************)
(* Planned premium, schema errors, row validation, column order, drilldown *)
(* index and ranking.                                                      *)
(***************************************************************************)
LacksPlannedPremium == "premium_plan_yuan" \notin Columns(file_df)

Unavailable(v) == v.k \in {"nan", "none"} \/ v = Str("")

\* C11: a dataset without the planned-premium column is processed and the
\* planned premium of every output row is left blank or unavailable, never
\* zero and never a copy of another field
C11_PlannedPremiumLeftBlank ==
    (pc \in {"calculated", "finalized"} /\ LacksPlannedPremium)
        => Unavailable(result_df["premium_plan_yuan"])

\* the sum of one field over the entries of an aggregate
RECURSIVE entries_sum(_, _)
entries_sum(entries, f) ==
    IF entries = << >> THEN 0 ELSE Head(entries)[f] + entries_sum(Tail(entries), f)

\* the entries stored for the children of a path; none when the key is absent
children(level, key) == IF key \in DOMAIN level THEN level[key] ELSE << >>

ChildrenAddUp(entries, parent, fields) ==
    \A f \in fields : entries_sum(entries, f) = parent[f]

org_fields == {"matured_premium_yuan", "reported_claim_payment_yuan", "expense_amount_yuan"}
leaf_fields == {"matured_premium_yuan", "reported_claim_payment_yuan"}

WeekConserved(w, wd) ==
    /\ \A f \in org_fields : entries_sum(w.organizations, f) = col_sum(wd, f)
    /\ \A i \in DOMAIN w.organizations :
         LET o == w.organizations[i]
             bs == children(w.business_types, o.third_level_organization)
         IN  /\ ChildrenAddUp(bs, o, org_fields)
             /\ \A j \in DOMAIN bs :
                  LET cs == children(w.coverage_types,
                                     join(<<o.third_level_organization,
                                            bs[j].business_type_category>>))
                  IN  /\ ChildrenAddUp(cs, bs[j], leaf_fields)
                      /\ \A k \in DOMAIN cs :
                           ChildrenAddUp(
                               children(w.renewal_status,
                                        join(<<o.third_level_organization,
                                               bs[j].business_type_category,
                                               cs[k].coverage_type>>)),
                               cs[k], leaf_fields)

\* C12: in the drilldown index of every week the children of an entry add up
\* to the entry, field by field, and the organizations add up to the total of
\* the week's rows, also when rows lack a dimension value
C12_SumConservation ==
    dpc = "done" =>
        \A w \in Range(weeks(dash_df)) :
            WeekConserved(drilldown_data[week_key(w)], week_data(dash_df, w))

\* updateDrilldownContent, levels 2 to 4: the list shown for a path is
\* drilldownData[weekKey].<level>[key] || [], the key being the path's
\* components joined with "_"
level_of(w, n) ==
    CASE n = 1 -> w.business_types
      [] n = 2 -> w.coverage_types
      [] n = 3 -> w.renewal_status

updateDrilldownContent(w, path) ==
    LET level == level_of(w, Len(path))
    IN  IF join(path) \in DOMAIN level THEN level[join(path)] ELSE << >>

PathExact(w, wd, n, p) ==
    updateDrilldownContent(w, p) = level_agg(n, path_rows(wd, p))

\* C13: the list retrieved for a path (week, organization, business type,
\* coverage type) is the aggregate of exactly the rows matching the path; two
\* paths never share or overwrite an entry, keys joined with "_" included
C13_PathEntriesExact ==
    dpc = "done" =>
        \A wk \in Range(weeks(dash_df)) : \A n \in 1..3 :
            \A p \in paths(week_data(dash_df, wk), n) :
                PathExact(drilldown_data[week_key(wk)], week_data(dash_df, wk), n, p)

\* the canonical fields with second_level_organization moved to the end
fields_second_level_last ==
    SelectSeq(required_fields, LAMBDA f : f # "second_level_organization")
        \o <<"second_level_organization">>

(***************************************************************************)
(* The CSV tools: scripts/merge_actual_data_to_csv.py (merge and clean),   *)
(* scripts/validate_csv.py and scripts/validate_csv_data.py (validators).  *)
(* A row is a function from the columns of the file to cell texts.         *)
(* Chinese enum values are transliterated: ChengDu / ZhongZhi,             *)
(* ShangYeXian / JiaoQiangXian, ZhuQuan / JiaoSan / DanJiao,               *)
(* XinBao / XuBao / ZhuanBao.                                              *)
(***************************************************************************)
REQUIRED_FIELDS_26 == <<
    "snapshot_date", "policy_start_year", "business_type_category", "chengdu_branch",
    "third_level_organization", "customer_category_3", "insurance_type",
    "is_new_energy_vehicle", "coverage_type", "is_transferred_vehicle", "renewal_status",
    "vehicle_insurance_grade", "highway_risk_grade", "large_truck_score",
    "small_truck_score", "terminal_source", "signed_premium_yuan", "matured_premium_yuan",
    "policy_count", "claim_case_count", "reported_claim_payment_yuan",
    "expense_amount_yuan", "commercial_premium_before_discount_yuan", "premium_plan_yuan",
    "marginal_contribution_amount_yuan", "week_number" >>

OPTIONAL_FIELD_SECOND_LEVEL == "second_level_organization"

EXPECTED_FIELDS_27_ORDER == <<
    "snapshot_date", "policy_start_year", "business_type_category", "chengdu_branch",
    "second_level_organization", "third_level_organization", "customer_category_3",
    "insurance_type", "is_new_energy_vehicle", "coverage_type", "is_transferred_vehicle",
    "renewal_status", "vehicle_insurance_grade", "highway_risk_grade", "large_truck_score",
    "small_truck_score", "terminal_source", "signed_premium_yuan", "matured_premium_yuan",
    "policy_count", "claim_case_count", "reported_claim_payment_yuan",
    "expense_amount_yuan", "commercial_premium_before_discount_yuan", "premium_plan_yuan",
    "marginal_contribution_amount_yuan", "week_number" >>

\* REQUIRED_FIELDS of validate_csv.py
vc_REQUIRED_FIELDS == <<
    "snapshot_date", "policy_start_year", "business_type_category", "chengdu_branch",
    "second_level_organization", "third_level_organization", "customer_category_3",
    "insurance_type", "is_new_energy_vehicle", "coverage_type", "is_transferred_vehicle",
    "renewal_status", "vehicle_insurance_grade", "highway_risk_grade", "large_truck_score",
    "small_truck_score", "terminal_source", "signed_premium_yuan", "matured_premium_yuan",
    "policy_count", "claim_case_count", "reported_claim_payment_yuan",
    "expense_amount_yuan", "commercial_premium_before_discount_yuan", "premium_plan_yuan",
    "marginal_contribution_amount_yuan", "week_number" >>

\* REQUIRED_FIELDS of validate_csv_data.py
vd_REQUIRED_FIELDS == <<
    "snapshot_date", "policy_start_year", "business_type_category", "chengdu_branch",
    "second_level_organization", "third_level_organization", "customer_category_3",
    "insurance_type", "is_new_energy_vehicle", "coverage_type", "is_transferred_vehicle",
    "renewal_status", "vehicle_insurance_grade", "highway_risk_grade", "large_truck_score",
    "small_truck_score", "terminal_source", "signed_premium_yuan", "matured_premium_yuan",
    "policy_count", "claim_case_count", "reported_claim_payment_yuan",
    "expense_amount_yuan", "commercial_premium_before_discount_yuan", "premium_plan_yuan",
    "marginal_contribution_amount_yuan", "week_number" >>

\* OPTIONAL_FIELDS, the same set in both validators
OPTIONAL_FIELDS == {
    "second_level_organization", "vehicle_insurance_grade", "highway_risk_grade",
    "large_truck_score", "small_truck_score", "premium_plan_yuan" }

VALID_ENUMS ==
    [ chengdu_branch |-> {"ChengDu", "ZhongZhi"},
      insurance_type |-> {"ShangYeXian", "JiaoQiangXian"},
      coverage_type  |-> {"ZhuQuan", "JiaoSan", "DanJiao"},
      renewal_status |-> {"XinBao", "XuBao", "ZhuanBao"} ]

grade_letters == {"A", "B", "C", "D", "E", "X", ""}

\* ENUM_VALUES of validate_csv.py
vc_ENUM_VALUES ==
    [ chengdu_branch |-> {"ChengDu", "ZhongZhi"},
      insurance_type |-> {"ShangYeXian", "JiaoQiangXian"},
      coverage_type  |-> {"ZhuQuan", "JiaoSan", "DanJiao"},
      renewal_status |-> {"XinBao", "XuBao", "ZhuanBao"},
      vehicle_insurance_grade |-> grade_letters \cup {"F", "G"},
      highway_risk_grade |-> grade_letters \cup {"F"},
      large_truck_score |-> grade_letters,
      small_truck_score |-> grade_letters ]

\* row.get(field): the cell, or None (here "") when the file has no such column
get(row, field) == IF field \in DOMAIN row THEN row[field] ELSE ""

\* _normalize_text: zero-width characters removed, blanks trimmed and collapsed
normalize_text(s) ==
    CASE s = " 100 " -> "100"
      [] OTHER -> s

\* raw.replace(",", "")
remove_commas(s) ==
    CASE s = "1,000" -> "1000"
      [] OTHER -> s

\* float(text): the number, or None for ValueError; blanks around the digits
\* are accepted, a thousands separator is not, "nan" is a float
py_float(s) ==
    CASE s \in {"0", "100", "200", "300", "1000", "2024", "2019", "44"} ->
            Int_(CHOOSE n \in {0, 100, 200, 300, 1000, 2024, 2019, 44} : ToString(n) = s)
      [] s = " 100 " -> Int_(100)
      [] s = "-50" -> Int_(-50)
      [] s = "1.5" -> Num(3, 2)
      [] s = "12.0" -> Int_(12)
      [] s = "inf" -> PosInf
      [] s = "20000000" -> Int_(20000000)
      [] s = "nan" -> NaN
      [] OTHER -> None

\* int(text): only an optionally signed run of digits is accepted
\* int(text) takes digits only: a text with a decimal point is a ValueError
has_point(s) == s \in {"1.5", "12.0"}

py_int(s) ==
    IF IsNum(py_float(s)) /\ py_float(s).d = 1 /\ ~has_point(s) THEN py_float(s) ELSE None

\* datetime.strptime(text, fmt): the date as YYYY-MM-DD, or "" for ValueError
strptime(s, fmt) ==
    CASE fmt = "%Y-%m-%d" /\ s \in {"2024-11-03", "2019-12-31", "2099-01-01"} -> s
      [] fmt = "%Y/%m/%d" /\ s = "2024/11/03" -> "2024-11-03"
      [] OTHER -> ""

\* the day count that orders the dates of the model
date_number(iso) ==
    CASE iso = "2019-12-31" -> 20191231
      [] iso = "2020-01-01" -> 20200101
      [] iso = "2024-11-03" -> 20241103
      [] iso = "2026-11-05" -> 20261105
      [] iso = "2099-01-01" -> 20990101

\* dt.date.today()
today == date_number("2026-11-05")

(***************************************************************************)
(* merge_actual_data_to_csv.py: the per-cell parsers.  A message is named  *)
(* by its kind; "" stands for None.                                        *)
(***************************************************************************)
\* _normalize_date_yyyy_mm_dd: the three formats are tried in turn
normalize_date_yyyy_mm_dd(value) ==
    LET raw == normalize_text(value)
    IN  IF raw = "" THEN [s |-> "", msg |-> "blank"]
        ELSE IF strptime(raw, "%Y-%m-%d") # ""
             THEN [s |-> strptime(raw, "%Y-%m-%d"), msg |-> ""]
        ELSE IF strptime(raw, "%Y/%m/%d") # ""
             THEN [s |-> strptime(raw, "%Y/%m/%d"), msg |-> ""]
        ELSE IF strptime(raw, "%Y.%m.%d") # ""
             THEN [s |-> strptime(raw, "%Y.%m.%d"), msg |-> ""]
        ELSE [s |-> raw, msg |-> "unparseable_date"]

lower(s) ==
    CASE s = "Yes" -> "yes"
      [] s = "N" -> "n"
      [] OTHER -> s

\* _normalize_bool: always a boolean, with a warning text for anything but
\* the exact words True and False
normalize_bool(value) ==
    LET raw == normalize_text(value)
    IN  IF raw = "" THEN [b |-> FALSE, msg |-> "blank_defaulted_False"]
        ELSE IF raw \in {"True", "False"} THEN [b |-> raw = "True", msg |-> ""]
        ELSE IF lower(raw) \in {"true", "1", "yes", "y", "zh_yes", "on", "enabled"}
             THEN [b |-> TRUE, msg |-> "nonstandard_boolean"]
        ELSE IF lower(raw) \in {"false", "0", "no", "n", "zh_no", "off", "disabled"}
             THEN [b |-> FALSE, msg |-> "nonstandard_boolean"]
        ELSE [b |-> FALSE, msg |-> "invalid_boolean_defaulted_False"]

\* _parse_number: (text, number, message)
parse_number(value, allow_blank) ==
    LET raw == normalize_text(value)
    IN  IF raw = ""
        THEN (IF allow_blank THEN [s |-> "", num |-> Int_(0), msg |-> ""]
              ELSE [s |-> "0", num |-> Int_(0), msg |-> "blank_defaulted_0"])
        ELSE IF py_float(remove_commas(raw)) = None
             THEN [s |-> raw, num |-> Int_(0), msg |-> "invalid_number_format"]
        ELSE [s |-> remove_commas(raw), num |-> py_float(remove_commas(raw)), msg |-> ""]

\* _parse_int on the result of _parse_number; int(nan) raises ValueError,
\* which nothing catches
parse_int_of(p, allow_blank) ==
    IF p.msg = "invalid_number_format" THEN [p EXCEPT !.raised = FALSE]
    ELSE IF p.s = "" /\ allow_blank THEN [p EXCEPT !.raised = FALSE]
    ELSE IF ~IsNum(p.num) THEN [p EXCEPT !.raised = TRUE]
    ELSE IF p.num.d # 1
         THEN [s |-> p.s, num |-> Trunc(p.num), msg |-> "must_be_integer", raised |-> FALSE]
    ELSE [s |-> ToString(p.num.n), num |-> p.num, msg |-> p.msg, raised |-> FALSE]

parse_int(value, allow_blank) ==
    parse_int_of([s |-> parse_number(value, allow_blank).s,
                  num |-> parse_number(value, allow_blank).num,
                  msg |-> parse_number(value, allow_blank).msg,
                  raised |-> FALSE], allow_blank)

\* _map_enum with ENUM_MAPPINGS of the merge script
map_enum(field, value) ==
    LET raw == normalize_text(value)
    IN  CASE field = "insurance_type" /\ raw \in {"ShangYeBaoXian", "ShangXian", "ShangYe"}
                -> "ShangYeXian"
          [] field = "insurance_type" /\ raw \in {"JiaoQiang", "JiaoQiangBaoXian", "QiangZhiXian"}
                -> "JiaoQiangXian"
          [] field = "renewal_status" /\ raw \in {"Xin", "XinBaoDan"} -> "XinBao"
          [] field = "renewal_status" /\ raw \in {"Xu", "XuBaoDan"} -> "XuBao"
          [] field = "renewal_status" /\ raw \in {"Zhuan", "ZhuanBaoDan"} -> "ZhuanBao"
          [] OTHER -> raw

(***************************************************************************)
(* _clean_row, lines 232-462: the errors and warnings of one row and, when *)
(* there is no error, the cleaned row.                                     *)
(***************************************************************************)
finding(field, kind, cond) == IF cond THEN {[field |-> field, kind |-> kind]} ELSE {}

FLt(a, b) == FGt(b, a)

\* lines 241-250
snapshot_date_errors(date) ==
    IF date.msg # "" THEN finding("snapshot_date", date.msg, TRUE)
    ELSE finding("snapshot_date", "out_of_range",
                 \/ date_number(date.s) < date_number("2020-01-01")
                 \/ date_number(date.s) > today)

\* lines 252-273: the message of _parse_int is an error, and so is the range
year_week_errors(field, p, lo, hi) ==
    finding(field, p.msg, p.msg # "")
        \cup finding(field, "out_of_range", FLt(p.num, Int_(lo)) \/ FGt(p.num, Int_(hi)))

\* lines 275-301, 315-317
text_errors(row) ==
    finding("chengdu_branch", "not_in_enum",
            normalize_text(get(row, "chengdu_branch")) \notin VALID_ENUMS.chengdu_branch)
    \cup UNION {finding(f, "empty", normalize_text(get(row, f)) = "") :
                  f \in {"third_level_organization", "customer_category_3",
                         "business_type_category", "terminal_source"}}
    \cup UNION {finding(f, "not_in_enum", map_enum(f, get(row, f)) \notin VALID_ENUMS[f]) :
                  f \in {"insurance_type", "coverage_type", "renewal_status"}}

\* lines 319-418: range errors of the measures; the parse messages of these
\* fields are warnings
measure_errors(signed, matured, count, claims, expense, commercial, plan) ==
    finding("signed_premium_yuan", "out_of_range",
            FLt(signed.num, Int_(0)) \/ FGt(signed.num, Int_(10000000)))
    \cup finding("matured_premium_yuan", "out_of_range",
                 FLt(matured.num, Int_(0)) \/ FGt(matured.num, Int_(10000000)))
    \cup finding("matured_premium_yuan", "exceeds_signed_premium",
                 FGt(matured.num, signed.num))
    \cup finding("policy_count", "negative", FLt(count.num, Int_(0)))
    \cup finding("claim_case_count", "negative", FLt(claims.num, Int_(0)))
    \cup finding("expense_amount_yuan", "negative", FLt(expense.num, Int_(0)))
    \cup finding("commercial_premium_before_discount_yuan", "negative",
                 FLt(commercial.num, Int_(0)))
    \cup finding("premium_plan_yuan", plan.msg, plan.msg = "invalid_number_format")

warning_fields == {
    "signed_premium_yuan", "matured_premium_yuan", "reported_claim_payment_yuan",
    "expense_amount_yuan", "commercial_premium_before_discount_yuan",
    "marginal_contribution_amount_yuan" }

clean_row_warnings(row) ==
    UNION {finding(f, normalize_bool(get(row, f)).msg, normalize_bool(get(row, f)).msg # "") :
             f \in {"is_new_energy_vehicle", "is_transferred_vehicle"}}
    \cup UNION {finding(f, parse_number(get(row, f), FALSE).msg,
                        parse_number(get(row, f), FALSE).msg # "") : f \in warning_fields}
    \cup UNION {finding(f, parse_int(get(row, f), FALSE).msg,
                        parse_int(get(row, f), FALSE).msg # "") :
                  f \in {"policy_count", "claim_case_count"}}

clean_row_errors(row) ==
    snapshot_date_errors(normalize_date_yyyy_mm_dd(get(row, "snapshot_date")))
    \cup year_week_errors("policy_start_year",
                          parse_int(get(row, "policy_start_year"), FALSE), 2020, 2030)
    \cup year_week_errors("week_number", parse_int(get(row, "week_number"), FALSE), 1, 105)
    \cup text_errors(row)
    \cup measure_errors(parse_number(get(row, "signed_premium_yuan"), FALSE),
                        parse_number(get(row, "matured_premium_yuan"), FALSE),
                        parse_int(get(row, "policy_count"), FALSE),
                        parse_int(get(row, "claim_case_count"), FALSE),
                        parse_number(get(row, "expense_amount_yuan"), FALSE),
                        parse_number(get(row, "commercial_premium_before_discount_yuan"), FALSE),
                        parse_number(get(row, "premium_plan_yuan"), TRUE))

bool_text(b) == IF b THEN "True" ELSE "False"

\* lines 430-460: the text written for a field of a row without errors
cleaned_cell(row, f) ==
    CASE f = "snapshot_date" -> normalize_date_yyyy_mm_dd(get(row, f)).s
      [] f \in {"policy_start_year", "week_number", "policy_count", "claim_case_count"} ->
            parse_int(get(row, f), FALSE).s
      [] f \in {"insurance_type", "coverage_type", "renewal_status"} -> map_enum(f, get(row, f))
      [] f \in {"is_new_energy_vehicle", "is_transferred_vehicle"} ->
            bool_text(normalize_bool(get(row, f)).b)
      [] f \in warning_fields -> parse_number(get(row, f), FALSE).s
      [] f = "premium_plan_yuan" -> parse_number(get(row, f), TRUE).s
      [] OTHER -> normalize_text(get(row, f))

cleaned_fields(include_second_level_organization) ==
    IF include_second_level_organization THEN Range(EXPECTED_FIELDS_27_ORDER)
    ELSE Range(REQUIRED_FIELDS_26)

\* int(num) of a NaN count, year or week raises ValueError inside _parse_int
clean_row_raises(row) ==
    \E f \in {"policy_start_year", "week_number", "policy_count", "claim_case_count"} :
        parse_int(get(row, f), FALSE).raised

clean_row(row, include_second_level_organization) ==
    [raised   |-> clean_row_raises(row),
     errors   |-> clean_row_errors(row),
     warnings |-> clean_row_warnings(row),
     cleaned  |-> IF clean_row_errors(row) # {} THEN << >>
                  ELSE [f \in cleaned_fields(include_second_level_organization) |->
                            cleaned_cell(row, f)]]

(***************************************************************************)
(* validate_csv.py, validate_row, lines 165-250.  A finding is a field     *)
(* with the kind of the message and its severity.                          *)
(***************************************************************************)
report(field, severity, kind, cond) ==
    IF cond THEN {[field |-> field, severity |-> severity, kind |-> kind]} ELSE {}

int_fields == {"policy_start_year", "week_number", "policy_count", "claim_case_count"}

\* num_fields of validate_csv.py
vc_num_fields == {
    "signed_premium_yuan", "matured_premium_yuan", "reported_claim_payment_yuan",
    "expense_amount_yuan", "commercial_premium_before_discount_yuan", "premium_plan_yuan",
    "marginal_contribution_amount_yuan" }

non_negative_fields == {
    "signed_premium_yuan", "matured_premium_yuan", "reported_claim_payment_yuan",
    "expense_amount_yuan", "commercial_premium_before_discount_yuan" }

\* int(text) outside lo..hi; a text that is no integer is passed over
int_outside(s, lo, hi) == IsNum(py_int(s)) /\ (py_int(s).n < lo \/ py_int(s).n > hi)

validate_row(row) ==
    UNION {report(f, "error", "required_empty", normalize_text(get(row, f)) = "") :
             f \in Range(vc_REQUIRED_FIELDS) \ OPTIONAL_FIELDS}
    \cup report("snapshot_date", "error", "bad_date",
                get(row, "snapshot_date") # ""
                    /\ strptime(get(row, "snapshot_date"), "%Y-%m-%d") = "")
    \cup UNION {report(f, "error", "bad_boolean",
                       get(row, f) # "" /\ get(row, f) \notin {"True", "False"}) :
                  f \in {"is_new_energy_vehicle", "is_transferred_vehicle"}}
    \cup UNION {report(f, "error", "bad_integer",
                       normalize_text(get(row, f)) # "" /\ py_int(get(row, f)) = None) :
                  f \in int_fields}
    \cup UNION {report(f, "error", "bad_number",
                       normalize_text(get(row, f)) # "" /\ py_float(get(row, f)) = None) :
                  f \in vc_num_fields}
    \cup UNION {report(f, "error", "bad_enum", f \in DOMAIN row /\ row[f] \notin vc_ENUM_VALUES[f]) :
                  f \in DOMAIN vc_ENUM_VALUES}
    \cup report("policy_start_year", "warning", "out_of_range",
                int_outside(get(row, "policy_start_year"), 2024, 2025))
    \cup report("week_number", "warning", "out_of_range",
                int_outside(get(row, "week_number"), 28, 105))
    \cup UNION {report(f, "error", "negative", FLt(py_float(get(row, f)), Int_(0))) :
                  f \in non_negative_fields}

(***************************************************************************)
(* validate_csv_data.py, the row checks of validate_csv, lines 129-196.    *)
(***************************************************************************)
\* number_fields of validate_csv_data.py
vd_number_fields == {
    "signed_premium_yuan", "matured_premium_yuan", "reported_claim_payment_yuan",
    "expense_amount_yuan", "commercial_premium_before_discount_yuan",
    "marginal_contribution_amount_yuan" }

\* ENUM_VALUES of validate_csv_data.py
vd_ENUM_VALUES ==
    [f \in DOMAIN vc_ENUM_VALUES \cup {"is_new_energy_vehicle", "is_transferred_vehicle"} |->
        IF f \in DOMAIN vc_ENUM_VALUES THEN vc_ENUM_VALUES[f] ELSE {"True", "False"}]

\* int(float(text)): ValueError for a text that is no float and for nan
int_float_fails(s) == py_float(s) \in {None, NaN}

\* int(float(text)): OverflowError for an infinity, which the except
\* ValueError clauses of lines 150-153 and 189-195 do not catch
int_float_overflows(s) == py_float(s).k = "inf"

\* lines 148-153: the row check that leaves the loop for the handler of
\* lines 209-212
row_raises(row) ==
    \E f \in int_fields : get(row, f) # "" /\ int_float_overflows(get(row, f))

int_float_outside(s, lo, hi) ==
    IsNum(py_float(s)) /\ (Trunc(py_float(s)).n < lo \/ Trunc(py_float(s)).n > hi)

row_errors(row) ==
    UNION {report(f, "error", "required_empty", normalize_text(get(row, f)) = "") :
             f \in Range(vd_REQUIRED_FIELDS) \ OPTIONAL_FIELDS}
    \cup report("snapshot_date", "error", "bad_date",
                get(row, "snapshot_date") # ""
                    /\ strptime(get(row, "snapshot_date"), "%Y-%m-%d") = "")
    \cup UNION {report(f, "error", "bad_integer",
                       get(row, f) # "" /\ int_float_fails(get(row, f))) : f \in int_fields}
    \cup UNION {report(f, "error", "bad_number",
                       get(row, f) # "" /\ py_float(get(row, f)) = None) :
                  f \in vd_number_fields}
    \cup UNION {report(f, "error", "negative",
                       /\ f # "marginal_contribution_amount_yuan"
                       /\ FLt(py_float(get(row, f)), Int_(0))) : f \in vd_number_fields}
    \cup UNION {report(f, "error", "bad_boolean",
                       get(row, f) # "" /\ get(row, f) \notin {"True", "False"}) :
                  f \in {"is_new_energy_vehicle", "is_transferred_vehicle"}}
    \cup UNION {report(f, "warning", "bad_enum",
                       get(row, f) # "" /\ get(row, f) \notin vd_ENUM_VALUES[f]) :
                  f \in DOMAIN vd_ENUM_VALUES}
    \cup report("policy_start_year", "warning", "out_of_range",
                int_outside(get(row, "policy_start_year"), 2024, 2025))
    \cup report("week_number", "warning", "out_of_range",
                int_float_outside(get(row, "week_number"), 1, 105))

has_error(fs) == \E x \in fs : x.severity = "error"

(***************************************************************************)
(* Input files of the CSV tools.                                           *)
(***************************************************************************)
MaxCsvRows == 2

\* a row every tool accepts
base_row ==
    [f \in Range(EXPECTED_FIELDS_27_ORDER) |->
        CASE f = "snapshot_date" -> "2024-11-03"
          [] f = "policy_start_year" -> "2024"
          [] f = "business_type_category" -> "Bus"
          [] f = "chengdu_branch" -> "ChengDu"
          [] f = "second_level_organization" -> "Sichuan"
          [] f = "third_level_organization" -> "CD"
          [] f = "customer_category_3" -> "Personal"
          [] f = "insurance_type" -> "ShangYeXian"
          [] f = "coverage_type" -> "ZhuQuan"
          [] f = "renewal_status" -> "XuBao"
          [] f \in {"is_new_energy_vehicle", "is_transferred_vehicle"} -> "False"
          [] f \in {"vehicle_insurance_grade", "highway_risk_grade"} -> "A"
          [] f \in {"large_truck_score", "small_truck_score"} -> ""
          [] f = "terminal_source" -> "App"
          [] f \in {"signed_premium_yuan", "commercial_premium_before_discount_yuan"} -> "200"
          [] f \in {"matured_premium_yuan", "policy_count", "reported_claim_payment_yuan",
                    "expense_amount_yuan", "marginal_contribution_amount_yuan"} -> "100"
          [] f = "claim_case_count" -> "0"
          [] f = "premium_plan_yuan" -> ""
          [] f = "week_number" -> "44"]

\* the cells that replace one cell of base_row
variants == {
    <<"signed_premium_yuan", "abc">>, <<"signed_premium_yuan", "-50">>,
    <<"signed_premium_yuan", "20000000">>, <<"signed_premium_yuan", " 100 ">>,
    <<"signed_premium_yuan", "1,000">>,
    <<"matured_premium_yuan", "300">>, <<"matured_premium_yuan", "-50">>,
    <<"matured_premium_yuan", "abc">>,
    <<"policy_count", "1.5">>, <<"policy_count", "nan">>, <<"policy_count", "-50">>,
    <<"policy_count", "abc">>,
    <<"reported_claim_payment_yuan", "-50">>, <<"reported_claim_payment_yuan", "abc">>,
    <<"expense_amount_yuan", "-50">>, <<"expense_amount_yuan", "abc">>,
    <<"commercial_premium_before_discount_yuan", "-50">>,
    <<"marginal_contribution_amount_yuan", "-50">>, <<"marginal_contribution_amount_yuan", "">>,
    <<"premium_plan_yuan", "100">>, <<"premium_plan_yuan", "abc">>,
    <<"week_number", "abc">>, <<"week_number", "200">>, <<"week_number", "">>,
    <<"policy_start_year", "2019">>, <<"policy_start_year", "1.5">>,
    <<"snapshot_date", "2024/11/03">>, <<"snapshot_date", "2019-12-31">>,
    <<"snapshot_date", "2099-01-01">>, <<"snapshot_date", "bad">>, <<"snapshot_date", "">>,
    <<"is_new_energy_vehicle", "maybe">>, <<"is_new_energy_vehicle", "Yes">>,
    <<"is_new_energy_vehicle", "">>, <<"is_new_energy_vehicle", "True">>,
    <<"insurance_type", "ShangXian">>, <<"insurance_type", "bogus">>,
    <<"coverage_type", "bogus">>, <<"chengdu_branch", "bogus">>,
    <<"third_level_organization", "">>, <<"large_truck_score", "Z">> }

row_with(f, t) == [base_row EXCEPT ![f] = t]

csv_row_pool == {base_row} \cup {row_with(v[1], v[2]) : v \in variants}

\* the rows that may follow the first row of a file
later_rows == {base_row, row_with("week_number", "abc")}

\* the header lines: complete, without the planned premium, without two
\* mandatory columns, without the second-level organization, with a column
\* more
headers == {
    Range(EXPECTED_FIELDS_27_ORDER),
    Range(EXPECTED_FIELDS_27_ORDER) \ {"premium_plan_yuan"},
    Range(EXPECTED_FIELDS_27_ORDER) \ {"signed_premium_yuan", "week_number"},
    Range(EXPECTED_FIELDS_27_ORDER) \ {"second_level_organization"},
    Range(EXPECTED_FIELDS_27_ORDER) \cup {"remark"} }

\* the cells a row has under a header
under(row, header) == [c \in header |-> IF c \in DOMAIN row THEN row[c] ELSE "x"]

row_lists ==
    {<< >>} \cup {<<r>> \o t : r \in csv_row_pool,
                              t \in UNION {[1..n -> later_rows] : n \in 0..(MaxCsvRows - 1)}}

\* first rows given to the two validators only: a count written with a
\* decimal point, and an infinite count
validator_rows == {row_with("policy_count", "12.0"), row_with("policy_count", "inf")}

validator_row_lists ==
    {<<r>> \o t : r \in validator_rows,
                  t \in UNION {[1..n -> later_rows] : n \in 0..(MaxCsvRows - 1)}}

input_row_lists(t) == IF t = "merge" THEN row_lists ELSE row_lists \cup validator_row_lists

file_rows(rows, header) == [i \in DOMAIN rows |-> under(rows[i], header)]

(***************************************************************************)
(* One run of one tool on one input file.                                  *)
(***************************************************************************)
InitCSV ==
    /\ tool \in {"merge", "validate_csv", "validate_csv_data"}
    /\ cpc = "start"
    /\ drop_second \in (IF tool = "merge" THEN BOOLEAN ELSE {FALSE})
    /\ fieldnames \in headers
    /\ in_rows \in {file_rows(rows, fieldnames) : rows \in input_row_lists(tool)}
    /\ rows_read = 0
    /\ out_csv = << >>
    /\ invalid_csv = << >>
    /\ counts = << >>
    /\ findings = {}
    /\ reported_missing = {}
    /\ exit_status = "none"
    /\ ETLIdle
    /\ DashIdle
    /\ ExtIdle

\* main, lines 528-532
out_fields(include_second) ==
    IF include_second THEN EXPECTED_FIELDS_27_ORDER
    ELSE SelectSeq(EXPECTED_FIELDS_27_ORDER, LAMBDA f : f # OPTIONAL_FIELD_SECOND_LEVEL)

\* main, lines 543-551: both output files are opened and get their header
\* before any input file is looked at
MergeOpenOutputs ==
    /\ tool = "merge" /\ cpc = "start"
    /\ out_csv' = [header |-> out_fields(~drop_second), rows |-> << >>]
    /\ invalid_csv' = [header |-> <<"__source_file", "__source_row", "__errors">>
                                      \o EXPECTED_FIELDS_27_ORDER,
                       rows |-> << >>]
    /\ counts' = [total_rows |-> 0, valid_rows |-> 0, invalid_rows |-> 0]
    /\ cpc' = "opened"
    /\ UNCHANGED <<tool, drop_second, fieldnames, in_rows, rows_read, findings,
                   reported_missing, exit_status, etl_vars, dash_vars, ext_vars>>

\* main, lines 553-562: ValueError naming every missing required column
MergeCheckHeader ==
    /\ tool = "merge" /\ cpc = "opened"
    /\ IF Range(REQUIRED_FIELDS_26) \subseteq fieldnames
       THEN /\ cpc' = "rows"
            /\ UNCHANGED <<reported_missing, exit_status>>
       ELSE /\ reported_missing' = Range(REQUIRED_FIELDS_26) \ fieldnames
            /\ exit_status' = "ValueError"
            /\ cpc' = "done"
    /\ UNCHANGED <<tool, drop_second, fieldnames, in_rows, rows_read, out_csv, invalid_csv,
                   counts, findings, etl_vars, dash_vars, ext_vars>>

\* out_writer.writerow(cleaned) after setdefault(k, "")
written(cleaned, fields) ==
    [f \in Range(fields) |-> IF f \in DOMAIN cleaned THEN cleaned[f] ELSE ""]

\* bad_writer.writerow(bad_row)
bad_row(row, source_row, errors) ==
    [source_row |-> source_row, errors |-> errors,
     cells |-> [k \in Range(EXPECTED_FIELDS_27_ORDER) |-> normalize_text(get(row, k))]]

tagged(fs, source_row, severity) ==
    {[row |-> source_row, field |-> x.field, severity |-> severity, kind |-> x.kind] : x \in fs}

\* main, lines 564-598, one turn of the row loop on the result r of _clean_row
merge_row(row, source_row, r) ==
    /\ rows_read' = rows_read + 1
    /\ counts' = IF r.raised THEN [counts EXCEPT !.total_rows = @ + 1]
                 ELSE IF r.errors # {}
                      THEN [counts EXCEPT !.total_rows = @ + 1, !.invalid_rows = @ + 1]
                 ELSE [counts EXCEPT !.total_rows = @ + 1, !.valid_rows = @ + 1]
    /\ findings' = IF r.raised THEN findings
                   ELSE findings \cup tagged(r.warnings, source_row, "warning")
                                 \cup tagged(r.errors, source_row, "error")
    /\ invalid_csv' = IF ~r.raised /\ r.errors # {}
                      THEN [invalid_csv EXCEPT
                              !.rows = Append(@, bad_row(row, source_row, r.errors))]
                      ELSE invalid_csv
    /\ out_csv' = IF ~r.raised /\ r.errors = {}
                  THEN [out_csv EXCEPT !.rows = Append(@, written(r.cleaned, out_csv.header))]
                  ELSE out_csv
    /\ exit_status' = IF r.raised THEN "ValueError" ELSE exit_status
    /\ cpc' = IF r.raised THEN "done" ELSE cpc

MergeRow ==
    /\ tool = "merge" /\ cpc = "rows" /\ rows_read < Len(in_rows)
    /\ merge_row(in_rows[rows_read + 1], rows_read + 2,
                 clean_row(in_rows[rows_read + 1], ~drop_second))
    /\ UNCHANGED <<tool, drop_second, fieldnames, in_rows, reported_missing,
                   etl_vars, dash_vars, ext_vars>>

\* main, lines 600-623: the summary is printed and 0 returned
MergeFinish ==
    /\ tool = "merge" /\ cpc = "rows" /\ rows_read = Len(in_rows)
    /\ exit_status' = "0"
    /\ cpc' = "done"
    /\ UNCHANGED <<tool, drop_second, fieldnames, in_rows, rows_read, out_csv, invalid_csv,
                   counts, findings, reported_missing, etl_vars, dash_vars, ext_vars>>

\* validate_csv.py, validate_csv, lines 263-281: missing columns are printed
\* and the empty report returned
VcCheckHeader ==
    /\ tool = "validate_csv" /\ cpc = "start"
    /\ counts' = [total_records |-> 0, valid_records |-> 0]
    /\ reported_missing' = Range(vc_REQUIRED_FIELDS) \ fieldnames
    /\ cpc' = IF Range(vc_REQUIRED_FIELDS) \subseteq fieldnames THEN "rows" ELSE "returned"
    /\ UNCHANGED <<tool, drop_second, fieldnames, in_rows, rows_read, out_csv, invalid_csv,
                   findings, exit_status, etl_vars, dash_vars, ext_vars>>

\* validate_csv.py, lines 284-288
VcRow ==
    /\ tool = "validate_csv" /\ cpc = "rows" /\ rows_read < Len(in_rows)
    /\ rows_read' = rows_read + 1
    /\ findings' = findings \cup
          {[row |-> rows_read + 2, field |-> x.field, severity |-> x.severity, kind |-> x.kind] :
              x \in validate_row(in_rows[rows_read + 1])}
    /\ counts' = [total_records |-> counts.total_records + 1,
                  valid_records |-> counts.valid_records +
                      (IF has_error(validate_row(in_rows[rows_read + 1])) THEN 0 ELSE 1)]
    /\ UNCHANGED <<tool, cpc, drop_second, fieldnames, in_rows, out_csv, invalid_csv,
                   reported_missing, exit_status, etl_vars, dash_vars, ext_vars>>

\* validate_csv.py, main, lines 310-314
VcExit ==
    /\ tool = "validate_csv"
    /\ cpc = "returned" \/ (cpc = "rows" /\ rows_read = Len(in_rows))
    /\ exit_status' = IF has_error(findings) THEN "1" ELSE "0"
    /\ cpc' = "done"
    /\ UNCHANGED <<tool, drop_second, fieldnames, in_rows, rows_read, out_csv, invalid_csv,
                   counts, findings, reported_missing, etl_vars, dash_vars, ext_vars>>

\* validate_csv_data.py, validate_csv, lines 110-121: an error for every
\* missing column, a warning for every other column; the rows are checked all
\* the same
VdCheckHeader ==
    /\ tool = "validate_csv_data" /\ cpc = "start"
    /\ counts' = [total_records |-> 0, valid_records |-> 0, error_records |-> 0,
                  warning_records |-> 0]
    /\ reported_missing' = Range(vd_REQUIRED_FIELDS) \ fieldnames
    /\ findings' =
          {[row |-> 0, field |-> f, severity |-> "error", kind |-> "missing_required_field"] :
              f \in Range(vd_REQUIRED_FIELDS) \ fieldnames}
          \cup {[row |-> 0, field |-> f, severity |-> "warning", kind |-> "extra_field"] :
                  f \in fieldnames \ Range(vd_REQUIRED_FIELDS)}
    /\ cpc' = "rows"
    /\ UNCHANGED <<tool, drop_second, fieldnames, in_rows, rows_read, out_csv, invalid_csv,
                   exit_status, etl_vars, dash_vars, ext_vars>>

\* lines 198-207
record_counts(c, fs) ==
    [total_records   |-> c.total_records + 1,
     valid_records   |-> c.valid_records + (IF fs = {} THEN 1 ELSE 0),
     error_records   |-> c.error_records + (IF has_error(fs) THEN 1 ELSE 0),
     warning_records |-> c.warning_records + (IF fs # {} /\ ~has_error(fs) THEN 1 ELSE 0)]

\* validate_csv_data.py, lines 125-207
VdRow ==
    /\ tool = "validate_csv_data" /\ cpc = "rows" /\ rows_read < Len(in_rows)
    /\ ~row_raises(in_rows[rows_read + 1])
    /\ rows_read' = rows_read + 1
    /\ findings' = findings \cup
          {[row |-> rows_read + 2, field |-> x.field, severity |-> x.severity, kind |-> x.kind] :
              x \in row_errors(in_rows[rows_read + 1])}
    /\ counts' = record_counts(counts, row_errors(in_rows[rows_read + 1]))
    /\ UNCHANGED <<tool, cpc, drop_second, fieldnames, in_rows, out_csv, invalid_csv,
                   reported_missing, exit_status, etl_vars, dash_vars, ext_vars>>

\* validate_csv_data.py, lines 125-129 and 209-212: a row whose checks raise
\* is counted in total_records, the loop is left, and the handler appends
\* one error of row 0
VdRowRaises ==
    /\ tool = "validate_csv_data" /\ cpc = "rows" /\ rows_read < Len(in_rows)
    /\ row_raises(in_rows[rows_read + 1])
    /\ rows_read' = rows_read + 1
    /\ counts' = [counts EXCEPT !.total_records = @ + 1]
    /\ findings' = findings \cup
          {[row |-> 0, field |-> "file_read", severity |-> "error", kind |-> "exception"]}
    /\ cpc' = "returned"
    /\ UNCHANGED <<tool, drop_second, fieldnames, in_rows, out_csv, invalid_csv,
                   reported_missing, exit_status, etl_vars, dash_vars, ext_vars>>

\* validate_csv_data.py, lines 304-311
VdExit ==
    /\ tool = "validate_csv_data"
    /\ cpc = "returned" \/ (cpc = "rows" /\ rows_read = Len(in_rows))
    /\ exit_status' = IF has_error(findings) THEN "1" ELSE "0"
    /\ cpc' = "done"
    /\ UNCHANGED <<tool, drop_second, fieldnames, in_rows, rows_read, out_csv, invalid_csv,
                   counts, findings, reported_missing, etl_vars, dash_vars, ext_vars>>

NextCSV ==
    \/ MergeOpenOutputs \/ MergeCheckHeader \/ MergeRow \/ MergeFinish
    \/ VcCheckHeader \/ VcRow \/ VcExit
    \/ VdCheckHeader \/ VdRow \/ VdRowRaises \/ VdExit

SpecCSV == InitCSV /\ [][NextCSV]_vars

(***************************************************************************)
(* Claims about the CSV tools.                                             *)
(***************************************************************************)
number_columns == warning_fields \cup {"premium_plan_yuan"}
boolean_columns == {"is_new_energy_vehicle", "is_transferred_vehicle"}

\* a cell that the parser of its column could not read (an empty cell is
\* not counted: it is defaulted)
Unparseable(row) ==
    \/ normalize_date_yyyy_mm_dd(get(row, "snapshot_date")).msg = "unparseable_date"
    \/ \E f \in int_fields :
          parse_int(get(row, f), FALSE).msg \in {"invalid_number_format", "must_be_integer"}
    \/ \E f \in number_columns : parse_number(get(row, f), TRUE).msg = "invalid_number_format"
    \/ \E f \in boolean_columns :
          normalize_bool(get(row, f)).msg = "invalid_boolean_defaulted_False"
    \/ \E f \in {"insurance_type", "coverage_type", "renewal_status"} :
          get(row, f) # "" /\ map_enum(f, get(row, f)) \notin VALID_ENUMS[f]

Rejected(source_row) ==
    /\ \E i \in DOMAIN invalid_csv.rows : invalid_csv.rows[i].source_row = source_row
    /\ Len(out_csv.rows) + Len(invalid_csv.rows) = rows_read

TypedCellsParse(out) ==
    /\ \A f \in number_columns : out[f] = "" \/ py_float(out[f]) # None
    /\ \A f \in int_fields : py_int(out[f]) # None
    /\ \A f \in boolean_columns : out[f] \in {"True", "False"}

MergeReadRows == tool = "merge" /\ cpc \in {"rows", "done"} /\ reported_missing = {}

\* C14: the merge script rejects every row with a cell that does not parse
\* as the type of its column, so every typed cell of the cleaned output
\* parses, and no row aborts the batch
C14_UnparseableRowsRejected ==
    MergeReadRows =>
        /\ exit_status # "ValueError"
        /\ \A i \in 1..rows_read : Unparseable(in_rows[i]) => Rejected(i + 1)
        /\ \A i \in DOMAIN out_csv.rows : TypedCellsParse(out_csv.rows[i])

\* the part of C14 the code keeps: a row with an error is never written to
\* the cleaned output
C14_RowsWithErrorsRejected ==
    MergeReadRows /\ exit_status # "ValueError" =>
        /\ Len(out_csv.rows) = counts.valid_rows
        /\ Len(invalid_csv.rows) = counts.invalid_rows
        /\ counts.valid_rows + counts.invalid_rows = rows_read
        /\ \A i \in 1..rows_read :
              clean_row_errors(in_rows[i]) # {} =>
                  \E j \in DOMAIN invalid_csv.rows : invalid_csv.rows[j].source_row = i + 1

\* the columns that must be present: all 27 for the validators, all but
\* second_level_organization for the merge script
mandatory_columns ==
    CASE tool = "merge" -> Range(REQUIRED_FIELDS_26)
      [] tool = "validate_csv" -> Range(vc_REQUIRED_FIELDS)
      [] tool = "validate_csv_data" -> Range(vd_REQUIRED_FIELDS)
      [] OTHER -> {}

SchemaError == tool # "none" /\ ~(mandatory_columns \subseteq fieldnames)

\* C15: when the input lacks mandatory columns every tool ends with a
\* failure status and has reported every missing column
C15_SchemaErrorFatal ==
    (SchemaError /\ cpc = "done") =>
        /\ exit_status \in {"1", "ValueError"}
        /\ reported_missing = mandatory_columns \ fieldnames

\* the part of C15 that holds: every tool names every missing column
C15_EveryMissingFieldReported ==
    (SchemaError /\ cpc = "done") => reported_missing = mandatory_columns \ fieldnames

exceeds_signed == [field |-> "matured_premium_yuan", kind |-> "exceeds_signed_premium"]

\* a row whose only defect is a matured premium above the signed premium
OnlyMaturedAboveSigned(row) ==
    /\ FGt(parse_number(get(row, "matured_premium_yuan"), FALSE).num,
           parse_number(get(row, "signed_premium_yuan"), FALSE).num)
    /\ clean_row_errors(row) \subseteq {exceeds_signed}
    /\ clean_row_warnings(row) = {}

Kept(source_row) ==
    \A i \in DOMAIN invalid_csv.rows : invalid_csv.rows[i].source_row # source_row

\* C16: the merge script keeps a row whose only defect is a matured premium
\* above its signed premium; the defect is a warning, never a rejection
C16_MaturedAboveSignedKept ==
    MergeReadRows =>
        \A i \in 1..rows_read : OnlyMaturedAboveSigned(in_rows[i]) => Kept(i + 1)

may_be_negative == {"reported_claim_payment_yuan", "marginal_contribution_amount_yuan"}
never_negative == {"signed_premium_yuan", "matured_premium_yuan", "expense_amount_yuan",
                   "commercial_premium_before_discount_yuan"}

Negative(row, f) == FLt(py_float(get(row, f)), Int_(0))

ErrorRecorded(source_row, f) ==
    \E x \in findings : x.row = source_row /\ x.field = f /\ x.severity = "error"

RowsChecked == tool # "none" /\ cpc \in {"rows", "done"} /\ exit_status # "ValueError"

SignRule(row, source_row) ==
    /\ \A f \in may_be_negative : Negative(row, f) => ~ErrorRecorded(source_row, f)
    /\ \A f \in never_negative : Negative(row, f) => ErrorRecorded(source_row, f)

\* C17: the merge script and both validators record no error for a negative
\* reported claim payment or marginal contribution, and record an error for
\* a negative signed premium, matured premium, expense amount or
\* pre-discount commercial premium
C17_SignRule ==
    RowsChecked => \A i \in 1..rows_read : SignRule(in_rows[i], i + 1)

\* the sign rule as the merge script alone applies it
C17_SignRuleOfMerge == tool = "merge" => C17_SignRule

(***************************************************************************)
(* The producers of the canonical CSV side by side: a run of the ETL on a  *)
(* file, or a run of one of the CSV tools.                                 *)
(***************************************************************************)
InitPipeline == InitETL \/ InitCSV

NextPipeline == NextETL \/ NextCSV

SpecPipeline == InitPipeline /\ [][NextPipeline]_vars

NoDuplicates(s) == Cardinality(Range(s)) = Len(s)

CanonicalOrder(columns) ==
    /\ Len(columns) = 27
    /\ NoDuplicates(columns)
    /\ columns = vc_REQUIRED_FIELDS
    /\ columns = vd_REQUIRED_FIELDS

MergeWrites27 == tool = "merge" /\ cpc # "start" /\ ~drop_second

\* C18: finalize_output of the ETL and the merge script (without
\* --drop-second-level-organization) emit the same 27 column names in the
\* same order whatever columns the input had, and this is the order of the
\* field list of both validators
C18_OneFixedOrder ==
    /\ pc = "finalized" =>
          /\ CanonicalOrder(output_columns)
          /\ Columns(result_df) = Range(output_columns)
    /\ MergeWrites27 =>
          /\ CanonicalOrder(out_csv.header)
          /\ \A i \in DOMAIN out_csv.rows : DOMAIN out_csv.rows[i] = Range(out_csv.header)

\* the ETL finished on an input without the optional columns, the columns of
\* the output being the 27 fields
C18_Witness ==
    /\ pc = "finalized"
    /\ Absent("chengdu_branch")
    /\ Len(output_columns) = 27

\* the merge script wrote a row of a file that has a column more
C18_MergeWitness ==
    /\ MergeWrites27 /\ cpc = "done"
    /\ "remark" \in fieldnames
    /\ Len(out_csv.rows) > 0

(***************************************************************************)
(* Dimension values through the ETL.                                       *)
(***************************************************************************)
\* the dimensions whose cells are texts or week numbers, not typed values
text_dimensions ==
    (Range(other_dimension_fields) \ {"snapshot_date"})
        \cup {"second_level_organization", "week_number"}

\* the input column that standardize_fields bound to a field
InputColumn(f) == CHOOSE a \in DOMAIN rename_map : rename_map[a] = f

PresentInInput(f) ==
    /\ \E a \in DOMAIN rename_map : rename_map[a] = f
    /\ InputColumn(f) \in Columns(file_df)
    /\ file_df[InputColumn(f)].k \in {"str", "num"}
    /\ file_df[InputColumn(f)] # Str("")

\* C19: every dimension value present in the input (risk-grade letters,
\* organizations, branch, business type, week number ...) is unchanged in
\* the final output row of the ETL
C19_DimensionsUnchanged ==
    pc = "finalized" =>
        \A f \in text_dimensions :
            PresentInInput(f) => result_df[f] = file_df[InputColumn(f)]

\* the same without the fields the code rewrites: the two truck scores, the
\* second-level organization and the week number
rewritten_dimensions ==
    {"large_truck_score", "small_truck_score", "second_level_organization", "week_number"}

C19_OtherDimensionsUnchanged ==
    pc = "finalized" =>
        \A f \in text_dimensions \ rewritten_dimensions :
            PresentInInput(f) => result_df[f] = file_df[InputColumn(f)]

(***************************************************************************)
(* The ranking of the business types                                       *)
(***************************************************************************)
\* the order the ranking is said to follow: larger summed premium first,
\* equal premiums by ascending group key
KeyOrder(a, b) ==
    \/ FGt(a.signed_premium_wan, b.signed_premium_wan)
    \/ /\ a.signed_premium_wan = b.signed_premium_wan
       /\ rank(a.business_type_category) < rank(b.business_type_category)

business_type_charted ==
    dpc \in {"business_type", "nev", "organization", "coverage", "insights",
             "weekly_trend", "done"}

excluded_groups(chart, d) ==
    {g \in {business_type_agg(d)[i] : i \in DOMAIN business_type_agg(d)} :
        \A i \in DOMAIN chart : chart[i] # g}

RankedByKeyOrder(chart, d) ==
    /\ \A i, j \in DOMAIN chart : i < j => KeyOrder(chart[i], chart[j])
    /\ \A g \in excluded_groups(chart, d) : \A i \in DOMAIN chart : KeyOrder(chart[i], g)

\* C20: the ranking of the business types by signed premium is ordered by
\* descending summed premium and, among equal premiums, by ascending group
\* key, and holds the first ten groups of that order, also when groups tie at
\* the tenth place.
C20_RankingDeterministic ==
    business_type_charted => RankedByKeyOrder(charts.business_type, dash_df)

\* what the sort does guarantee: the premiums of the ranking never increase,
\* and no excluded group has a larger premium than an included one
C20_PremiumsDescend ==
    business_type_charted =>
        /\ \A i, j \in DOMAIN charts.business_type : i < j =>
              ~FGt(charts.business_type[j].signed_premium_wan,
                   charts.business_type[i].signed_premium_wan)
        /\ \A g \in excluded_groups(charts.business_type, dash_df) :
              \A i \in DOMAIN charts.business_type :
                 ~FGt(g.signed_premium_wan, charts.business_type[i].signed_premium_wan)

(***************************************************************************)
(* One expense-ratio convention                                            *)
(***************************************************************************)
\* the expense ratio, in percent, that standardize_fields derives for a row
standardized_expense_pct(row) ==
    FMul(guarded_ratio(Int_(row.expense_amount_yuan), Int_(row.signed_premium_yuan), Int_(0)),
         Int_(100))

kpis_calculated == dpc \notin {"idle", "start", "loaded"}

\* C21: every stage divides the expense amount by the same premium field: for
\* a file of one row, the expense ratio among the dashboard's KPIs is the
\* expense ratio that the ETL's standardize_fields derives for that row.
C21_OneExpenseConvention ==
    (kpis_calculated /\ Len(dash_df) = 1) =>
        kpis.expense_ratio = standardized_expense_pct(dash_df[1])

\* the stages of the dashboard do agree with each other where the matured
\* premium is positive: KPI, weekly trend and drilldown of a one-row file
C21_DashboardStagesAgree ==
    (dpc = "done" /\ Len(dash_df) = 1 /\ dash_df[1].matured_premium_yuan > 0
     /\ dash_df[1].third_level_organization # "") =>
        /\ charts.weekly_trend[1].expense_ratio = FRound2(kpis.expense_ratio)
        /\ drilldown_data[week_key(dash_df[1].week_number)].organizations[1].expense_ratio
              = FRound2(kpis.expense_ratio)

(***************************************************************************)
(* Row partition of the merge script                                       *)
(***************************************************************************)
result_of(i) == clean_row(in_rows[i], ~drop_second)

rows_with_errors(n) == SelectSeq([i \in 1..n |-> i], LAMBDA i : result_of(i).errors # {})

rows_without_errors(n) == SelectSeq([i \in 1..n |-> i], LAMBDA i : result_of(i).errors = {})

\* the rows read so far are, in input order, the rows of the cleaned output
\* and of the rejected-rows file, each row in exactly one of the two
Partitioned ==
    /\ \A i \in 1..rows_read : (result_of(i).cleaned # << >>) <=> (result_of(i).errors = {})
    /\ out_csv.rows =
          [k \in 1..Len(rows_without_errors(rows_read)) |->
              written(result_of(rows_without_errors(rows_read)[k]).cleaned, out_csv.header)]
    /\ [k \in 1..Len(invalid_csv.rows) |-> invalid_csv.rows[k].source_row] =
          [k \in 1..Len(rows_with_errors(rows_read)) |-> rows_with_errors(rows_read)[k] + 1]
    /\ counts.total_rows = rows_read
    /\ counts.total_rows = counts.valid_rows + counts.invalid_rows

\* C22: in the merge script a row is cleaned exactly if it has no error, every
\* data row read is written to exactly one of the cleaned output and the
\* rejected-rows file, in input order, and total_rows = valid_rows +
\* invalid_rows.
C22_RowPartition == MergeReadRows => Partitioned

\* the partition holds as long as no row made _clean_row raise
C22_PartitionUnlessRaised ==
    (MergeReadRows /\ exit_status # "ValueError") => Partitioned

(***************************************************************************)
(* Week number of a file                                                   *)
(***************************************************************************)
\* the patterns in the order 'Di N Zhou', 'Zhou N', 'W N', 'week N', 'N Zhou';
\* a letter stands for both of its cases
week_patterns == <<
    [before |-> <<{"Di"}>>, blanks |-> FALSE, after |-> {"Zhou"}],
    [before |-> <<{"Zhou"}>>, blanks |-> FALSE, after |-> {}],
    [before |-> <<{"W", "w"}>>, blanks |-> FALSE, after |-> {}],
    [before |-> <<{"W", "w"}, {"E", "e"}, {"E", "e"}, {"K", "k"}>>, blanks |-> TRUE, after |-> {}],
    [before |-> << >>, blanks |-> FALSE, after |-> {"Zhou"}] >>

\* the pattern matches name from position i with the number in name[j..k]
MatchesAt(name, pat, i, j, k) ==
    /\ i + Len(pat.before) - 1 <= Len(name)
    /\ \A m \in 1..Len(pat.before) : name[i + m - 1] \in pat.before[m]
    /\ j >= i + Len(pat.before)
    /\ pat.blanks \/ j = i + Len(pat.before)
    /\ \A m \in (i + Len(pat.before))..(j - 1) : name[m] = " "
    /\ j <= k /\ k <= Len(name)
    /\ \A m \in j..k : name[m] \in Digits
    /\ k = Len(name) \/ name[k + 1] \notin Digits
    /\ pat.after = {} \/ (k + 1 <= Len(name) /\ name[k + 1] \in pat.after)

Captures(name, pat) ==
    {c \in (1..Len(name)) \X (1..Len(name)) \X (1..Len(name)) :
        MatchesAt(name, pat, c[1], c[2], c[3])}

\* the number of the leftmost match
Captured(name, pat) ==
    LET c == CHOOSE x \in Captures(name, pat) : \A y \in Captures(name, pat) : x[1] <= y[1]
    IN  int_of(name, c[2], c[3])

MatchingPatterns(name) == {p \in DOMAIN week_patterns : Captures(name, week_patterns[p]) # {}}

ClaimedWeek(name, user_week) ==
    IF user_week # None THEN user_week
    ELSE IF MatchingPatterns(name) = {} THEN Int_(40)
    ELSE Int_(Captured(name, week_patterns[CHOOSE p \in MatchingPatterns(name) :
                                               \A q \in MatchingPatterns(name) : p <= q]))

\* C23: the week number that standardize_fields assigns to the frame is the
\* caller's user_week_number when given, otherwise the number captured by the
\* first of the five patterns that matches the file name, otherwise 40.
C23_WeekNumberAssigned ==
    pc = "standardized" =>
        result_df["week_number"] = ClaimedWeek(original_filename, user_week_number)

\* a file name that the first and the third pattern both match
C23_Witness ==
    /\ pc = "standardized"
    /\ user_week_number = None
    /\ original_filename = name_di
    /\ result_df["week_number"] = Int_(47)

(***************************************************************************)
(* clean_archive.py: ArchiveAnalyzer and main.  An archived file is a      *)
(* record of its name and age_days; an active document holds markdown      *)
(* links, each with the directory and the file name of its target.         *)
(***************************************************************************)
MaxFiles == 2

archive_names == {"a.md", "b.md"}

\* age_days = (now - mtime).days
ages == {100, 365, 366}

archived_file(name, age_days) == [name |-> name, age_days |-> age_days]

\* the listings of archive/ that glob may return: no name twice, any order
archive_listings ==
    {l \in UNION {[1..n -> {archived_file(f, a) : f \in archive_names, a \in ages}] :
                     n \in 0..MaxFiles} :
        \A i, j \in DOMAIN l : i # j => l[i].name # l[j].name}

link(dir, name) == [dir |-> dir, name |-> name]

\* an index that links to archive/a.md; a document saved in another encoding
\* than UTF-8 that links to archive/b.md; a document that links to a file
\* called a.md in the archive of another project; a document without links
doc_pool ==
    {[doc |-> "README.md", utf8 |-> TRUE, links |-> {link("archive/", "a.md")}],
     [doc |-> "02_decisions/gbk.md", utf8 |-> FALSE, links |-> {link("archive/", "b.md")}],
     [doc |-> "01_features/x.md", utf8 |-> TRUE, links |-> {link("../old/archive/", "a.md")}],
     [doc |-> "04_refactoring/plain.md", utf8 |-> TRUE, links |-> {}]}

\* analyze_references, lines 67-99: a document that cannot be read is skipped
\* with a message; a link counts when its path contains 'archive/' and its
\* file name is the name of an archived file
contains_archive(dir) == dir \in {"archive/", "../old/archive/"}

analyze_references(files, docs) ==
    [name \in {files[i].name : i \in DOMAIN files} |->
        {d.doc : d \in {x \in docs : x.utf8 /\ \E l \in x.links :
                                        contains_archive(l.dir) /\ l.name = name}}]

\* generate_report, lines 101-152: the two lists the cleanup reads
generate_report(files, refs) ==
    [very_old     |-> SelectSeq(files, LAMBDA f : f.age_days > 365),
     old          |-> SelectSeq(files, LAMBDA f : f.age_days <= 365 /\ f.age_days > 180),
     recent       |-> SelectSeq(files, LAMBDA f : f.age_days <= 180),
     referenced   |-> SelectSeq(files, LAMBDA f : refs[f.name] # {}),
     unreferenced |-> SelectSeq(files, LAMBDA f : refs[f.name] = {})]

\* lines 239-242 and 286-289
candidates_for_deletion(rep) ==
    SelectSeq(rep.very_old,
              LAMBDA f : f.name \in {rep.unreferenced[i].name : i \in DOMAIN rep.unreferenced})

InitArchive ==
    /\ apc = "start"
    /\ args \in [interactive : BOOLEAN, auto_clean : BOOLEAN, dry_run : BOOLEAN]
    /\ archive_dir \in archive_listings
    /\ active_docs \in SUBSET doc_pool
    /\ references = << >>
    /\ report_ = << >>
    /\ candidates = << >>
    /\ next_candidate = 0
    /\ response = "none"
    /\ deleted = {}
    /\ ETLIdle
    /\ DashIdle
    /\ CSVIdle
    /\ ConvIdle
    /\ NavIdle

\* main, lines 368-370: scan_archive, scan_active_docs, analyze_references
AnalyzeReferences ==
    /\ apc = "start"
    /\ references' = analyze_references(archive_dir, active_docs)
    /\ apc' = "analyzed"
    /\ UNCHANGED <<args, archive_dir, active_docs, report_, candidates, next_candidate,
                   response, deleted, etl_vars, dash_vars, csv_vars,
                   conv_vars, nav_vars>>

\* main, lines 373-374
GenerateReport ==
    /\ apc = "analyzed"
    /\ report_' = generate_report(archive_dir, references)
    /\ apc' = "reported"
    /\ UNCHANGED <<args, archive_dir, active_docs, references, candidates, next_candidate,
                   response, deleted, etl_vars, dash_vars, csv_vars,
                   conv_vars, nav_vars>>

\* main, lines 377-380, and the head of the cleanup chosen: --interactive is
\* tested first, and only auto_cleanup is handed --dry-run
StartCleanup ==
    /\ apc = "reported"
    /\ IF args.interactive \/ args.auto_clean
       THEN /\ candidates' = candidates_for_deletion(report_)
            /\ next_candidate' = 1
            /\ apc' = IF candidates_for_deletion(report_) = << >> THEN "done"
                      ELSE IF args.interactive THEN "interactive" ELSE "auto"
       ELSE /\ apc' = "done"
            /\ UNCHANGED <<candidates, next_candidate>>
    /\ UNCHANGED <<args, archive_dir, active_docs, references, report_, response, deleted,
                   etl_vars, dash_vars, csv_vars,
                   conv_vars, nav_vars>>

\* file_info['path'].unlink() inside try: the file is removed, or the
\* failure is printed and the loop goes on
unlink(name, removed) == IF removed THEN deleted \cup {name} ELSE deleted

\* interactive_cleanup, lines 259-277: one answer read from the terminal
Answer ==
    /\ apc = "interactive"
    /\ next_candidate <= Len(candidates)
    /\ \E r \in {"q", "y", "n", "x"} : \E removed \in BOOLEAN :
          /\ response' = r
          /\ deleted' = IF r = "y" THEN unlink(candidates[next_candidate].name, removed)
                        ELSE deleted
          /\ next_candidate' = IF r \in {"y", "n"} THEN next_candidate + 1 ELSE next_candidate
          /\ apc' = IF r = "q" THEN "done" ELSE apc
    /\ UNCHANGED <<args, archive_dir, active_docs, references, report_, candidates,
                   etl_vars, dash_vars, csv_vars,
                   conv_vars, nav_vars>>

\* auto_cleanup, lines 303-315: one turn of the loop
AutoCleanupStep ==
    /\ apc = "auto"
    /\ next_candidate <= Len(candidates)
    /\ \E removed \in BOOLEAN :
          deleted' = IF ~args.dry_run THEN unlink(candidates[next_candidate].name, removed)
                     ELSE deleted
    /\ next_candidate' = next_candidate + 1
    /\ UNCHANGED <<apc, args, archive_dir, active_docs, references, report_, candidates,
                   response, etl_vars, dash_vars, csv_vars,
                   conv_vars, nav_vars>>

\* lines 282 and 317-321: the loop is through
FinishCleanup ==
    /\ apc \in {"interactive", "auto"}
    /\ next_candidate > Len(candidates)
    /\ apc' = "done"
    /\ UNCHANGED <<args, archive_dir, active_docs, references, report_, candidates,
                   next_candidate, response, deleted, etl_vars, dash_vars, csv_vars,
                   conv_vars, nav_vars>>

NextArchive ==
    \/ AnalyzeReferences
    \/ GenerateReport
    \/ StartCleanup
    \/ Answer
    \/ AutoCleanupStep
    \/ FinishCleanup

SpecArchive == InitArchive /\ [][NextArchive]_vars

(***************************************************************************)
(* Cleanup safety                                                          *)
(***************************************************************************)
\* an active document holds a link to the file of this name in archive/
LinkedByActiveDocument(name) ==
    \E d \in active_docs : link("archive/", name) \in d.links

DeletedOnlyOldUnlinked ==
    \A name \in deleted :
        /\ \E i \in DOMAIN archive_dir :
              archive_dir[i].name = name /\ archive_dir[i].age_days > 365
        /\ ~LinkedByActiveDocument(name)

DryRunDeletesNothing == (apc # "idle" /\ args.dry_run) => deleted = {}

\* C24: a file is deleted only if it is an archived file older than 365 days
\* that no active document links to; in dry-run mode no file is deleted; and
\* after the answer 'q' nothing more is deleted.
C24_CleanupSafety ==
    /\ [](DeletedOnlyOldUnlinked /\ DryRunDeletesNothing)
    /\ [][response = "q" => deleted' = deleted]_vars

\* what the code keeps: every deleted file is older than 365 days and has no
\* reference that analyze_references recorded, auto_cleanup deletes nothing
\* in dry-run mode, and nothing is deleted after 'q'
C24_DeletedAreCandidates ==
    /\ [](\A name \in deleted :
            /\ \E i \in DOMAIN archive_dir :
                  archive_dir[i].name = name /\ archive_dir[i].age_days > 365
            /\ references[name] = {})
    /\ []((apc # "idle" /\ args.dry_run /\ ~args.interactive) => deleted = {})
    /\ [][response = "q" => deleted' = deleted]_vars

(***************************************************************************)
(* ETLConverter.run (etl_to_duckdb.py) and CSVToDuckDBConverter.convert    *)
(* (csv_to_duckdb.py): one run over the input files found.  An input file  *)
(* is either complete or lacks the signed premium column.  The database    *)
(* file is a record: whether it exists, and the files whose rows it holds  *)
(* (<<"old">> for the database of an earlier run).                         *)
(***************************************************************************)
MaxInputFiles == 2

file_kinds == {"complete", "no_premium"}

input_listings == UNION {[1..n -> file_kinds] : n \in 0..MaxInputFiles}

no_database == [exists |-> FALSE, holds |-> << >>]
earlier_database == [exists |-> TRUE, holds |-> <<"old">>]

\* pd.read_csv(file_path) of the file
frame_of(kind) ==
    IF kind = "complete" THEN week_row
    ELSE sample_row(ratio_columns \ {"signed_premium_wan"})

\* process_and_import_files, lines 294-304: the transformation of the file
\* raises
etl_file_raises(kind) == standardize_fields(frame_of(kind), name_plain, None).raised # "none"

\* import_csv_files, lines 72-95: the first file creates the table with the
\* columns it has; INSERT ... SELECT * of a later file needs the same columns
csv_file_raises(files, i) == i > 1 /\ files[i] # files[1]

file_raises(c, files, i) ==
    IF c = "etl" THEN etl_file_raises(files[i]) ELSE csv_file_raises(files, i)

\* clean_data of csv_to_duckdb.py, lines 106-124, names signed_premium_yuan;
\* the table of the ETL always has the 27 columns
clean_data_raises(c, files) == c = "csv" /\ files[1] = "no_premium"

\* etl_to_duckdb.py lines 338-342, csv_to_duckdb.py lines 129-137
indexes(c) ==
    {"idx_week", "idx_year", "idx_org", "idx_business", "idx_year_week"}
    \cup (IF c = "csv" THEN {"idx_customer", "idx_insurance_type"} ELSE {})

\* a close() that leaves the connection as it is
close_skipped(c) == c

\* close(), lines 377-381 and 219-223
close(c) == IF c = "open" THEN "closed" ELSE c

InitConvert ==
    /\ conv \in {"etl", "csv"}
    /\ vpc = "start"
    /\ in_files \in input_listings
    /\ files_done = 0
    /\ old_db \in {no_database, earlier_database}
    /\ db = old_db
    /\ conn = "none"
    /\ ran = << >>
    /\ failed_at = ""
    /\ index_failed = {}
    /\ exit_code = 0
    /\ ETLIdle
    /\ DashIdle
    /\ CSVIdle
    /\ ArchIdle
    /\ NavIdle

\* find_files / find_csv_files: sys.exit(1) when nothing is found
FindFiles ==
    /\ vpc = "start"
    /\ ran' = Append(ran, "find_files")
    /\ IF in_files = << >>
       THEN /\ failed_at' = "find_files"
            /\ exit_code' = 1
            /\ vpc' = "finally"
       ELSE /\ vpc' = "found"
            /\ UNCHANGED <<failed_at, exit_code>>
    /\ UNCHANGED <<conv, in_files, files_done, old_db, db, conn, index_failed,
                   etl_vars, dash_vars, csv_vars, arch_vars, nav_vars>>

\* create_database: an existing file is removed, then duckdb.connect creates
\* the new file; either call may raise
CreateDatabase ==
    /\ vpc = "found"
    /\ ran' = Append(ran, "create_database")
    /\ \E outcome \in {"connected", "remove_raises", "connect_raises"} :
          /\ outcome = "remove_raises" => db.exists
          /\ db' = CASE outcome = "connected" -> [exists |-> TRUE, holds |-> << >>]
                     [] outcome = "remove_raises" -> db
                     [] outcome = "connect_raises" -> no_database
          /\ conn' = IF outcome = "connected" THEN "open" ELSE conn
          /\ failed_at' = IF outcome = "connected" THEN failed_at ELSE "create_database"
          /\ vpc' = IF outcome = "connected" THEN "created" ELSE "except"
    /\ UNCHANGED <<conv, in_files, files_done, old_db, index_failed, exit_code,
                   etl_vars, dash_vars, csv_vars, arch_vars, nav_vars>>

\* process_and_import_files / import_csv_files, one turn of the loop: the rows
\* of the file are committed to the table, or the exception is raised again
ImportFile ==
    /\ vpc = "created"
    /\ files_done < Len(in_files)
    /\ ran' = IF files_done = 0 THEN Append(ran, "import") ELSE ran
    /\ IF file_raises(conv, in_files, files_done + 1)
       THEN /\ failed_at' = "import"
            /\ vpc' = "except"
            /\ UNCHANGED <<db, files_done>>
       ELSE /\ db' = [db EXCEPT !.holds = Append(@, files_done + 1)]
            /\ files_done' = files_done + 1
            /\ vpc' = IF files_done + 1 = Len(in_files) THEN "imported" ELSE vpc
            /\ UNCHANGED failed_at
    /\ UNCHANGED <<conv, in_files, old_db, conn, index_failed, exit_code,
                   etl_vars, dash_vars, csv_vars, arch_vars, nav_vars>>

\* a stage that is one or two statements on the connection: it returns or
\* raises
stage(name, from, to, raises) ==
    /\ vpc = from
    /\ ran' = Append(ran, name)
    /\ failed_at' = IF raises THEN name ELSE failed_at
    /\ vpc' = IF raises THEN "except" ELSE to
    /\ UNCHANGED <<conv, in_files, files_done, old_db, db, conn, index_failed, exit_code,
                   etl_vars, dash_vars, csv_vars, arch_vars, nav_vars>>

CleanData ==
    /\ vpc = "imported"
    /\ \E raises \in BOOLEAN :
          /\ clean_data_raises(conv, in_files) => raises
          /\ stage("clean_data", "imported", "cleaned", raises)

\* create_indexes: each CREATE INDEX has its own try/except that prints the
\* failure and goes on
CreateIndexes ==
    /\ vpc = "cleaned"
    /\ ran' = Append(ran, "create_indexes")
    /\ index_failed' \in SUBSET indexes(conv)
    /\ vpc' = "indexed"
    /\ UNCHANGED <<conv, in_files, files_done, old_db, db, conn, failed_at, exit_code,
                   etl_vars, dash_vars, csv_vars, arch_vars, nav_vars>>

OptimizeDatabase ==
    /\ vpc = "indexed"
    /\ \E raises \in BOOLEAN : stage("optimize_database", "indexed", "optimized", raises)

AnalyzeData ==
    /\ vpc = "optimized"
    /\ \E raises \in BOOLEAN :
          stage("analyze_data", "optimized", IF conv = "csv" THEN "analyzed" ELSE "finally",
                raises)

\* csv_to_duckdb.py only, lines 204-217
GetDatabaseInfo ==
    /\ conv = "csv"
    /\ \E raises \in BOOLEAN : stage("get_database_info", "analyzed", "finally", raises)

\* except Exception: the message, the traceback, sys.exit(1)
HandleException ==
    /\ vpc = "except"
    /\ exit_code' = 1
    /\ vpc' = "finally"
    /\ UNCHANGED <<conv, in_files, files_done, old_db, db, conn, ran, failed_at,
                   index_failed, etl_vars, dash_vars, csv_vars, arch_vars, nav_vars>>

\* finally: self.close(), and the process ends
Finally ==
    /\ vpc = "finally"
    /\ conn' = close(conn)
    /\ vpc' = "exited"
    /\ UNCHANGED <<conv, in_files, files_done, old_db, db, ran, failed_at, index_failed,
                   exit_code, etl_vars, dash_vars, csv_vars, arch_vars, nav_vars>>

NextConvert ==
    \/ FindFiles
    \/ CreateDatabase
    \/ ImportFile
    \/ CleanData
    \/ CreateIndexes
    \/ OptimizeDatabase
    \/ AnalyzeData
    \/ GetDatabaseInfo
    \/ HandleException
    \/ Finally

SpecConvert == InitConvert /\ [][NextConvert]_vars

\* the statements of run / convert follow one another without waiting for
\* anything but the database
SpecConvertFair == SpecConvert /\ WF_vars(NextConvert)

(***************************************************************************)
(* Stage order, failure and the database of a converter run                *)
(***************************************************************************)
claimed_stages == <<"find_files", "create_database", "import", "clean_data",
                    "create_indexes", "optimize_database", "analyze_data">>

IsPrefix(a, b) == Len(a) <= Len(b) /\ SubSeq(b, 1, Len(a)) = a

StagesInOrder ==
    IsPrefix(SelectSeq(ran, LAMBDA x : x \in Range(claimed_stages)), claimed_stages)

IndexFailureDoesNotStop ==
    /\ failed_at # "create_indexes"
    /\ (vpc = "exited" /\ failed_at = "") =>
          /\ exit_code = 0
          /\ SelectSeq(ran, LAMBDA x : x \in Range(claimed_stages)) = claimed_stages

ClosedAtExit == vpc = "exited" => conn # "open"

\* C25: the stages of a converter run start in the order find files, create
\* database, import, clean, create indexes, optimize, analyze; no stage starts
\* after a stage has failed; failed index creations do not end the run; the
\* process ends on every path, and with no connection left open.
C25_StagesAndTermination ==
    /\ [](StagesInOrder /\ IndexFailureDoesNotStop /\ ClosedAtExit)
    /\ [][failed_at # "" => ran' = ran]_vars
    /\ <>(vpc = "exited")

\* a run in which index creations failed, the optimization ran and raised,
\* and the connection was closed
C25_Witness ==
    /\ vpc = "exited"
    /\ index_failed # {}
    /\ failed_at = "optimize_database"
    /\ conn = "closed"
    /\ exit_code = 1

\* C26: if the processing of an input file fails, the output database that
\* existed before the run is unchanged and no database with the rows of the
\* files before the failing one is left behind.
C26_AllOrNothing ==
    (vpc = "exited" /\ failed_at = "import") => db = old_db

\* the database of an earlier run survives only the failures that come
\* before create_database removed it
C26_KeptWhenNothingFound ==
    (vpc = "exited" /\ failed_at = "find_files") => db = old_db

(***************************************************************************)
(* C27: the counters and the exit status of the two validators.            *)
(***************************************************************************)
\* the rows read so far in which validate_row reported an error
rows_with_error_findings ==
    {i \in 1..rows_read : has_error(validate_row(in_rows[i]))}

\* validate_csv_data.py: every row read is counted in exactly one of the
\* three classes
EveryRowClassified ==
    (tool = "validate_csv_data" /\ cpc \in {"rows", "returned", "done"}) =>
        /\ counts.total_records = rows_read
        /\ counts.total_records =
              counts.valid_records + counts.error_records + counts.warning_records

\* validate_csv.py: the valid rows are the rows read without an error
ValidIsTotalMinusErrors ==
    (tool = "validate_csv" /\ cpc \in {"rows", "returned", "done"}) =>
        /\ counts.total_records = rows_read
        /\ counts.valid_records = counts.total_records - Cardinality(rows_with_error_findings)

\* both exit with status 0 exactly when no finding of severity error was
\* recorded
ExitZeroIffNoError ==
    (tool \in {"validate_csv", "validate_csv_data"} /\ cpc = "done") =>
        (exit_status = "0" <=> ~has_error(findings))

\* C27: in validate_csv_data.py every data row examined is counted in
\* exactly one of valid_records, error_records and warning_records, so that
\* total_records is their sum; in validate_csv.py valid_records is
\* total_records minus the rows with an error; each validator exits with 0
\* if and only if it recorded no error.
C27_ValidatorCounters ==
    /\ EveryRowClassified
    /\ ValidIsTotalMinusErrors
    /\ ExitZeroIffNoError

\* C27, what the code keeps: the counters of validate_csv.py and both exit
\* statuses are as stated, and validate_csv_data.py classifies every row it
\* read unless the checks of a row raised.
C27_CountersUnlessRaised ==
    /\ ValidIsTotalMinusErrors
    /\ ExitZeroIffNoError
    /\ (tool = "validate_csv_data" /\ cpc \in {"rows", "returned", "done"}) =>
          /\ counts.total_records = rows_read
          /\ counts.valid_records + counts.error_records + counts.warning_records =
                Cardinality({i \in 1..rows_read : ~row_raises(in_rows[i])})

(***************************************************************************)
(* C28: validate_csv.py against validate_csv_data.py on the same file.     *)
(***************************************************************************)
complete_header == fieldnames = Range(EXPECTED_FIELDS_27_ORDER)

\* the exit status of validate_csv.py on a file with the complete header
vc_exit(rows) ==
    IF \E i \in DOMAIN rows : has_error(validate_row(rows[i])) THEN "1" ELSE "0"

\* the exit status of validate_csv_data.py on a file with the complete
\* header: rows are examined up to the first one whose checks raise
vd_exit(rows) ==
    IF \E i \in DOMAIN rows :
          /\ \A j \in 1..(i - 1) : ~row_raises(rows[j])
          /\ row_raises(rows[i]) \/ has_error(row_errors(rows[i]))
    THEN "1" ELSE "0"

\* C28: on every file with the 27 header fields the two validators classify
\* each row the same way (error or not) and exit with the same status.
C28_SameCheck ==
    (complete_header /\ tool \in {"validate_csv", "validate_csv_data"} /\ cpc = "done") =>
        /\ \A i \in DOMAIN in_rows :
              has_error(validate_row(in_rows[i])) <=> has_error(row_errors(in_rows[i]))
        /\ exit_status = vc_exit(in_rows)
        /\ exit_status = vd_exit(in_rows)

\* C28, what the code keeps: a row in which validate_csv_data.py records an
\* error is a row in which validate_csv.py records one, and a file that
\* validate_csv.py passes is a file that validate_csv_data.py passes.
C28_CsvDataErrorsAreCsvErrors ==
    (complete_header /\ tool \in {"validate_csv", "validate_csv_data"} /\ cpc = "done") =>
        /\ \A i \in DOMAIN in_rows :
              has_error(row_errors(in_rows[i])) => has_error(validate_row(in_rows[i]))
        /\ vc_exit(in_rows) = "0" => vd_exit(in_rows) = "0"
        /\ tool = "validate_csv" => exit_status = vc_exit(in_rows)
        /\ tool = "validate_csv_data" => exit_status = vd_exit(in_rows)

(***************************************************************************)
(* The drilldown navigation of the generated dashboard: the script         *)
(* embedded by generate_html, generate_dashboard.py lines 985-1166.        *)
(* currentDrilldown holds None for null, Int_(w) for a week and Str(x) for *)
(* a name; breadcrumb and content hold the links of the rendered HTML.     *)
(***************************************************************************)
\* the files whose drilldown index is embedded in the page: one
\* organization with two coverage types, two organizations in one week,
\* names that join to the same key, two weeks, and two years of one week
nav_files == {
    <<row_week44, row_refund>>,
    <<row_week45, row_claim_only>>,
    <<row_a_bc, row_ab_c>>,
    <<row_week44, row_week45>>,
    <<row_week44, row_empty>> }

\* the week numbers of the points a click on the trend chart may report
chart_weeks == {44, 45, 46, 47}

\* lines 990-996 and 1150-1156
null_drilldown ==
    [week |-> None, level |-> 0, organization |-> None, businessType |-> None,
     coverageType |-> None]

\* ${value} inside a template literal
text_of(v) ==
    CASE v = None -> "null"
      [] IsNum(v) -> ToString(v.n)
      [] OTHER -> v.s

\* `week_${currentDrilldown.week}`
weekKey(cd) == "week_" \o text_of(cd.week)

\* updateBreadcrumb, lines 1030-1046: the links of the breadcrumb, each with
\* the call written into its onclick
updateBreadcrumb(cd) ==
    {[fn |-> "closeDrilldown", week |-> None, level |-> 0],
     [fn |-> "showDrilldown", week |-> cd.week, level |-> 1]}
    \cup (IF cd.level >= 2 THEN {[fn |-> "showDrilldown", week |-> cd.week, level |-> 2]}
          ELSE {})
    \cup (IF cd.level >= 3 THEN {[fn |-> "showDrilldown", week |-> cd.week, level |-> 3]}
          ELSE {})

drill_link(fn, arg) == [fn |-> fn, arg |-> arg]

\* updateDrilldownContent, lines 1048-1124: the drill links of the table
\* rendered for the state; level 4 renders none.  Reading a week that is not
\* in drilldownData throws before innerHTML is assigned.
drilldownContent(data, cd, shown) ==
    IF weekKey(cd) \notin DOMAIN data THEN shown
    ELSE LET w == data[weekKey(cd)]
         IN  CASE cd.level = 1 ->
                    {drill_link("drillToBusinessType", e.third_level_organization) :
                        e \in Range(w.organizations)}
               [] cd.level = 2 ->
                    {drill_link("drillToCoverageType", e.business_type_category) :
                        e \in Range(updateDrilldownContent(w, <<text_of(cd.organization)>>))}
               [] cd.level = 3 ->
                    {drill_link("drillToRenewalStatus", e.coverage_type) :
                        e \in Range(updateDrilldownContent(w,
                                        <<text_of(cd.organization), text_of(cd.businessType)>>))}
               [] OTHER -> {}

\* lines 1126-1145: the state each drill function leaves
drillToBusinessType(cd, org) == [cd EXCEPT !.organization = Str(org), !.level = 2]

drillToCoverageType_keeps_type(cd, bizType) == [cd EXCEPT !.level = 3]

drillToCoverageType(cd, bizType) == [cd EXCEPT !.businessType = Str(bizType), !.level = 3]

drillToRenewalStatus(cd, coverageType_) ==
    [cd EXCEPT !.coverageType = Str(coverageType_), !.level = 4]

\* the rest of a drill function: updateBreadcrumb(); updateDrilldownContent()
Rerender(cd) ==
    /\ currentDrilldown' = cd
    /\ breadcrumb' = updateBreadcrumb(cd)
    /\ content' = drilldownContent(drilldownData, cd, content)
    /\ UNCHANGED <<drilldownData, modal_display>>

\* showDrilldown, lines 1014-1028
showDrilldown(week, level) ==
    IF ("week_" \o text_of(week)) \notin DOMAIN drilldownData
    THEN UNCHANGED nav_vars
    ELSE /\ modal_display' = "block"
         /\ currentDrilldown' = [currentDrilldown EXCEPT !.week = week, !.level = level]
         /\ breadcrumb' = updateBreadcrumb(currentDrilldown')
         /\ content' = drilldownContent(drilldownData, currentDrilldown', content)
         /\ UNCHANGED drilldownData

\* closeDrilldown, lines 1147-1157
closeDrilldown ==
    /\ modal_display' = "none"
    /\ currentDrilldown' = null_drilldown
    /\ UNCHANGED <<drilldownData, breadcrumb, content>>

\* lines 986-996: the page as loaded
InitNav ==
    /\ drilldownData \in {create_drilldown_data(load_data(f)) : f \in nav_files}
    /\ currentDrilldown = null_drilldown
    /\ modal_display = "none"
    /\ breadcrumb = {}
    /\ content = {}
    /\ ETLIdle
    /\ DashIdle
    /\ CSVIdle
    /\ ArchIdle
    /\ ConvIdle

\* lines 999-1011: a click on a point of the loss-ratio curve
PlotlyClick ==
    /\ modal_display \in {"none", "block"}
    /\ \E weekNum \in chart_weeks : showDrilldown(Int_(weekNum), 1)
    /\ UNCHANGED <<etl_vars, dash_vars, csv_vars, arch_vars, conv_vars>>

\* a click on a link of the breadcrumb
BreadcrumbClick ==
    /\ modal_display = "block"
    /\ \E a \in breadcrumb :
          IF a.fn = "closeDrilldown" THEN closeDrilldown ELSE showDrilldown(a.week, a.level)
    /\ UNCHANGED <<etl_vars, dash_vars, csv_vars, arch_vars, conv_vars>>

\* a click on the link of a row of the organizations table
DrillToBusinessType ==
    /\ modal_display = "block"
    /\ \E a \in content :
          /\ a.fn = "drillToBusinessType"
          /\ Rerender(drillToBusinessType(currentDrilldown, a.arg))
    /\ UNCHANGED <<etl_vars, dash_vars, csv_vars, arch_vars, conv_vars>>

DrillToCoverageType ==
    /\ modal_display = "block"
    /\ \E a \in content :
          /\ a.fn = "drillToCoverageType"
          /\ Rerender(drillToCoverageType(currentDrilldown, a.arg))
    /\ UNCHANGED <<etl_vars, dash_vars, csv_vars, arch_vars, conv_vars>>

DrillToRenewalStatus ==
    /\ modal_display = "block"
    /\ \E a \in content :
          /\ a.fn = "drillToRenewalStatus"
          /\ Rerender(drillToRenewalStatus(currentDrilldown, a.arg))
    /\ UNCHANGED <<etl_vars, dash_vars, csv_vars, arch_vars, conv_vars>>

\* line 974: the close button of the modal
CloseButtonClick ==
    /\ modal_display = "block"
    /\ closeDrilldown
    /\ UNCHANGED <<etl_vars, dash_vars, csv_vars, arch_vars, conv_vars>>

\* lines 1160-1165: a click on the modal outside its content
WindowClick ==
    /\ modal_display = "block"
    /\ closeDrilldown
    /\ UNCHANGED <<etl_vars, dash_vars, csv_vars, arch_vars, conv_vars>>

NextNav ==
    \/ PlotlyClick \/ BreadcrumbClick
    \/ DrillToBusinessType \/ DrillToCoverageType \/ DrillToRenewalStatus
    \/ CloseButtonClick \/ WindowClick

SpecNav == InitNav /\ [][NextNav]_vars

(***************************************************************************)
(* C29: the navigation state.                                              *)
(***************************************************************************)
\* the names listed for a path of the week on display
listed(path, field) ==
    IF weekKey(currentDrilldown) \in DOMAIN drilldownData
    THEN {e[field] : e \in Range(updateDrilldownContent(drilldownData[weekKey(currentDrilldown)],
                                                         path))}
    ELSE {}

NavigationState ==
    LET cd == currentDrilldown
    IN  /\ cd.level \in 0..4
        /\ cd.level >= 1 => cd.week # None
        /\ cd.level >= 2 => cd.organization # None
        /\ cd.level >= 3 =>
              /\ cd.businessType # None
              /\ cd.businessType.s \in listed(<<cd.organization.s>>, "business_type_category")
        /\ cd.level = 4 =>
              /\ cd.coverageType # None
              /\ cd.coverageType.s \in
                    listed(<<cd.organization.s, cd.businessType.s>>, "coverage_type")

CloseResets ==
    (modal_display = "block" /\ modal_display' = "none") => currentDrilldown' = null_drilldown

\* C29: after any sequence of chart clicks, drill-in clicks, breadcrumb
\* clicks and closes the level is in 0..4; from level 1 on the week is set,
\* from level 2 on the organization, from level 3 on a business type listed
\* for that organization, at level 4 a coverage type listed for that
\* business type; and closing leaves level 0 with every selection null.
C29_NavigationInvariant == [](NavigationState) /\ [][CloseResets]_vars

\* all four levels entered and left again through the breadcrumb: level 3
\* with the coverage type of an earlier visit of level 4 still stored
C29_Witness ==
    /\ currentDrilldown.level = 3
    /\ currentDrilldown.coverageType # None
    /\ modal_display = "block"

(***************************************************************************)
(* C30: risk weeks of the trend chart, of the insights and of the          *)
(* drilldown index.                                                        *)
(***************************************************************************)
\* the week numbers the insights text lists as risk weeks
listed_risk_weeks == Range(insights.risk_week_nums)

\* a point of the trend chart is marked exactly when its week is listed
MarkedIffListed ==
    \A i \in DOMAIN charts.weekly_trend :
        charts.weekly_trend[i].is_risk <=>
            charts.weekly_trend[i].week_number \in listed_risk_weeks

\* the rows of a point of the trend chart
point_rows(e) == week_rows(dash_df, <<e.policy_start_year, e.week_number>>)

\* the drilldown entry opened for a point aggregates the rows of the point
DrilldownOfPoint ==
    \A i \in DOMAIN charts.weekly_trend :
        LET e == charts.weekly_trend[i]
        IN  /\ week_key(e.week_number) \in DOMAIN drilldown_data
            /\ drilldown_data[week_key(e.week_number)] = drill_week(point_rows(e))

\* C30: a week is marked as a risk point in the weekly trend chart if and
\* only if the insights text lists it as a risk week, and the drilldown data
\* opened for a chart point aggregates exactly the rows of that point (same
\* policy-start year and week).
C30_RiskFlagsConsistent ==
    dpc = "done" => (MarkedIffListed /\ DrilldownOfPoint)

\* the week number of the point occurs in one policy-start year only
one_year(e) ==
    \A j \in DOMAIN dash_df :
        dash_df[j].week_number = e.week_number =>
            dash_df[j].policy_start_year = e.policy_start_year

\* C30, what the code keeps: every marked point is a listed week, every
\* point has a drilldown entry, and the entry aggregates the rows of the
\* point when its week number occurs in one policy-start year only.
C30_MarkedAreListed ==
    dpc = "done" =>
        \A i \in DOMAIN charts.weekly_trend :
            LET e == charts.weekly_trend[i]
            IN  /\ e.is_risk => e.week_number \in listed_risk_weeks
                /\ week_key(e.week_number) \in DOMAIN drilldown_data
                /\ one_year(e) =>
                      drilldown_data[week_key(e.week_number)] = drill_week(point_rows(e))

\* the two halves of C30 on their own
C30_OnlyMarking == dpc = "done" => MarkedIffListed

C30_OnlyDrilldown == dpc = "done" => DrilldownOfPoint

====
